---- MODULE Spec2Model ----
(***************************************************************************)
(* Model of pkg/wallet/service.go: the in-memory ledger (accounts,         *)
(* payments, favorites, account-ID counter) with its mutating operations,  *)
(* and the goroutine-partitioned aggregations over the payment slice.      *)
(***************************************************************************)
EXTENDS Integers, Sequences, FiniteSets, TLC

(***************************************************************************)
(* Bounds of the model.                                                    *)
(***************************************************************************)
\* types.Money is int64.  The width is scaled down to MoneyBits bits so that
\* the wrap-around of the Go arithmetic is within reach of the model checker;
\* nothing below depends on the particular width.
MoneyBits == 4
MaxAccounts == 2
MaxPhones == 2
MaxPayments == 2
MaxFavorites == 1
MaxCalls == 5
\* Calls explored after a payment was favorited (SpecFavorite).
MaxCallsAfterFavorite == 3
\* Calls explored on a ledger that is exported and imported (SpecCodec).
MaxCodecCalls == 4
\* Aggregations: the length of the payment slice and the goroutine counts.
MaxLen == 3
MaxGoroutines == 3
\* batchSize of SumPaymentsWithProgress, 100_000 in the source, scaled down so
\* that several batches fit in MaxLen payments.
BatchSize == 2

MoneyMod == 2 ^ MoneyBits
MaxMoney == (2 ^ (MoneyBits - 1)) - 1
MinMoney == 0 - (2 ^ (MoneyBits - 1))

\* Go's signed fixed-width addition and subtraction: the result modulo
\* 2^MoneyBits, read as a two's-complement number.
WrapMoney(x) == ((x - MinMoney) % MoneyMod) + MinMoney

(***************************************************************************)
(* Inputs of the calls.                                                    *)
(***************************************************************************)
Phones == 1 .. MaxPhones
AccountIDs == 1 .. (MaxAccounts + 1)
Amounts == {-1, 0, 1, 2, MaxMoney}
Categories == {"auto", "mobile"}
Names == {"fav"}
MaxUUIDs == MaxPayments + MaxFavorites
UUIDs == 1 .. (MaxUUIDs + 1)

PaymentStatusOk == "OK"
PaymentStatusFail == "FAIL"
PaymentStatusInProgress == "INPROGRESS"

ErrNone == "nil"
ErrPhoneRegistered == "phone already registered"
ErrAmountMustBePositive == "amount must be greater than zero"
ErrAccountNotFound == "account not found"
ErrNotEnoughBalance == "not enough balance"
ErrPaymentNotFound == "payment not found"
ErrFavoriteNotFound == "favorite not found"

VARIABLES
    nextAccountID,  \* Service.nextAccountID
    accounts,       \* Service.accounts: sequence of [ID, Phone, Balance]
    payments,       \* Service.payments: sequence of [ID, AccountID, Amount, Category, Status]
    favorites,      \* Service.favorites: sequence of [ID, AccountID, Name, Amount, Category]
    uuids,          \* number of identifiers uuid.New() has handed out
    last,           \* the last call: operation, arguments, returned error and value
    deposited,      \* history: account ID -> exact sum of the successful deposits
    rejects,        \* history: payment ID -> number of successful Reject calls
    calls,          \* number of ledger calls counted against MaxCalls
    favored,        \* history: per favorite, the payment as it was when favorited
    call,           \* the aggregation call in flight: function and arguments
    main,           \* the calling goroutine: position, locals, returned value
    workers,        \* the spawned goroutines, by iteration: position and locals
    wg,             \* sync.WaitGroup counter of the call
    mu,             \* sync.Mutex of the call: -1 when free, else the holder
    sum,            \* SumPayments: the shared accumulator sum
    found,          \* FilterPayments(ByFn): the shared accumulator payments
    routines,       \* SumPaymentsWithProgress: the local routines
    received,       \* SumPaymentsWithProgress: the value read by <-subtotal
    progressChannel,\* SumPaymentsWithProgress: the channel: buffer, capacity, closed
    consumer,       \* the caller ranging over the returned channel
    dir,            \* Export/Import: the dump files of the directory
    file,           \* ExportToFile/ImportFromFile: the file
    roundTrip       \* history: the ledger as exported, and how far a round trip got

ledger == <<nextAccountID, accounts, payments, favorites, uuids>>
history == <<last, deposited, rejects, calls, favored>>
aggregation == <<call, main, workers, wg, mu, sum, found>>
progress == <<routines, received, progressChannel, consumer>>
files == <<dir, file, roundTrip>>
vars == <<nextAccountID, accounts, payments, favorites, uuids,
          last, deposited, rejects, calls, favored,
          call, main, workers, wg, mu, sum, found,
          routines, received, progressChannel, consumer,
          dir, file, roundTrip>>

(***************************************************************************)
(* Helpers on sequences.                                                   *)
(***************************************************************************)
\* Index of the first element of seq whose ID is id, 0 when there is none:
\* the linear scans of FindAccountByID, FindPaymentByID, FindFavoriteByID.
FirstIndexByID(seq, id) ==
    LET hits == {i \in 1 .. Len(seq) : seq[i].ID = id}
    IN  IF hits = {} THEN 0 ELSE CHOOSE i \in hits : \A j \in hits : i <= j

FindAccountByID(accountID) == FirstIndexByID(accounts, accountID)
FindPaymentByID(paymentID) == FirstIndexByID(payments, paymentID)
FindFavoriteByID(favoriteID) == FirstIndexByID(favorites, favoriteID)

\* uuid.New().String(): an identifier that was never handed out before.
NewUUID == uuids + 1

\* The ledger as a value, and the result of a call: the error, the returned
\* entity (0 for nil) and the ledger the call leaves behind.
Ledger == [nextAccountID |-> nextAccountID, accounts |-> accounts,
           payments |-> payments, favorites |-> favorites, uuids |-> uuids]
Failed(e) == [err |-> e, ret |-> 0, st |-> Ledger]
Returned(r, s) == [err |-> ErrNone, ret |-> r, st |-> s]

(***************************************************************************)
(* The ledger operations.                                                  *)
(***************************************************************************)
\* RegisterAccount with the counter advanced before the phones are compared.
RegisterAccountCountsFirst(phone) ==
    IF \E i \in 1 .. Len(accounts) : accounts[i].Phone = phone
    THEN [err |-> ErrPhoneRegistered, ret |-> 0,
          st |-> [Ledger EXCEPT !.nextAccountID = nextAccountID + 1]]
    ELSE LET account == [ID |-> nextAccountID + 1, Phone |-> phone, Balance |-> 0]
         IN  Returned(account,
                      [Ledger EXCEPT !.nextAccountID = nextAccountID + 1,
                                     !.accounts = Append(accounts, account)])

\* RegisterAccount numbering the account before the counter is advanced.
RegisterAccountStaleID(phone) ==
    IF \E i \in 1 .. Len(accounts) : accounts[i].Phone = phone
    THEN Failed(ErrPhoneRegistered)
    ELSE LET account == [ID |-> nextAccountID, Phone |-> phone, Balance |-> 0]
         IN  Returned(account,
                      [Ledger EXCEPT !.nextAccountID = nextAccountID + 1,
                                     !.accounts = Append(accounts, account)])

RegisterAccount(phone) ==
    IF \E i \in 1 .. Len(accounts) : accounts[i].Phone = phone
    THEN Failed(ErrPhoneRegistered)
    ELSE LET account == [ID |-> nextAccountID + 1, Phone |-> phone, Balance |-> 0]
         IN  Returned(account,
                      [Ledger EXCEPT !.nextAccountID = nextAccountID + 1,
                                     !.accounts = Append(accounts, account)])

\* Deposit with the account looked up before the amount is validated.
DepositLookupFirst(accountID, amount) ==
    LET a == FindAccountByID(accountID)
    IN  IF a = 0 THEN Failed(ErrAccountNotFound)
        ELSE IF amount <= 0 THEN Failed(ErrAmountMustBePositive)
        ELSE Returned(0,
                 [Ledger EXCEPT !.accounts[a].Balance =
                                    WrapMoney(accounts[a].Balance + amount)])

Deposit(accountID, amount) ==
    IF amount <= 0 THEN Failed(ErrAmountMustBePositive)
    ELSE LET a == FindAccountByID(accountID)
         IN  IF a = 0 THEN Failed(ErrAccountNotFound)
             ELSE Returned(0,
                      [Ledger EXCEPT !.accounts[a].Balance =
                                         WrapMoney(accounts[a].Balance + amount)])

\* Pay that records the payment without debiting the account.
PayNoDebit(accountID, amount, category) ==
    IF amount <= 0 THEN Failed(ErrAmountMustBePositive)
    ELSE LET a == FindAccountByID(accountID)
         IN  IF a = 0 THEN Failed(ErrAccountNotFound)
             ELSE IF accounts[a].Balance < amount THEN Failed(ErrNotEnoughBalance)
             ELSE LET payment == [ID |-> NewUUID, AccountID |-> accountID,
                                  Amount |-> amount, Category |-> category,
                                  Status |-> PaymentStatusInProgress]
                  IN  Returned(payment,
                          [Ledger EXCEPT !.uuids = NewUUID,
                                         !.payments = Append(payments, payment)])

\* Pay refusing a payment of the whole balance (<= for <).
PayStrict(accountID, amount, category) ==
    IF amount <= 0 THEN Failed(ErrAmountMustBePositive)
    ELSE LET a == FindAccountByID(accountID)
         IN  IF a = 0 THEN Failed(ErrAccountNotFound)
             ELSE IF accounts[a].Balance <= amount THEN Failed(ErrNotEnoughBalance)
             ELSE LET payment == [ID |-> NewUUID, AccountID |-> accountID,
                                  Amount |-> amount, Category |-> category,
                                  Status |-> PaymentStatusInProgress]
                  IN  Returned(payment,
                          [Ledger EXCEPT !.accounts[a].Balance =
                                             WrapMoney(accounts[a].Balance - amount),
                                         !.uuids = NewUUID,
                                         !.payments = Append(payments, payment)])

Pay(accountID, amount, category) ==
    IF amount <= 0 THEN Failed(ErrAmountMustBePositive)
    ELSE LET a == FindAccountByID(accountID)
         IN  IF a = 0 THEN Failed(ErrAccountNotFound)
             ELSE IF accounts[a].Balance < amount THEN Failed(ErrNotEnoughBalance)
             ELSE LET payment == [ID |-> NewUUID, AccountID |-> accountID,
                                  Amount |-> amount, Category |-> category,
                                  Status |-> PaymentStatusInProgress]
                  IN  Returned(payment,
                          [Ledger EXCEPT !.accounts[a].Balance =
                                             WrapMoney(accounts[a].Balance - amount),
                                         !.uuids = NewUUID,
                                         !.payments = Append(payments, payment)])

\* Reject refunding only a payment that is not yet FAIL.
RejectGuarded(paymentID) ==
    LET p == FindPaymentByID(paymentID)
    IN  IF p = 0 THEN Failed(ErrPaymentNotFound)
        ELSE LET a == FindAccountByID(payments[p].AccountID)
             IN  IF a = 0 THEN Failed(ErrAccountNotFound)
                 ELSE IF payments[p].Status = PaymentStatusFail THEN Returned(0, Ledger)
                 ELSE Returned(0,
                          [Ledger EXCEPT !.payments[p].Status = PaymentStatusFail,
                                         !.accounts[a].Balance =
                                             WrapMoney(accounts[a].Balance + payments[p].Amount)])

\* Reject marking the payment with the wrong status constant.
RejectMarksOk(paymentID) ==
    LET p == FindPaymentByID(paymentID)
    IN  IF p = 0 THEN Failed(ErrPaymentNotFound)
        ELSE LET a == FindAccountByID(payments[p].AccountID)
             IN  IF a = 0 THEN Failed(ErrAccountNotFound)
                 ELSE Returned(0,
                          [Ledger EXCEPT !.payments[p].Status = PaymentStatusOk,
                                         !.accounts[a].Balance =
                                             WrapMoney(accounts[a].Balance + payments[p].Amount)])

Reject(paymentID) ==
    LET p == FindPaymentByID(paymentID)
    IN  IF p = 0 THEN Failed(ErrPaymentNotFound)
        ELSE LET a == FindAccountByID(payments[p].AccountID)
             IN  IF a = 0 THEN Failed(ErrAccountNotFound)
                 ELSE Returned(0,
                          [Ledger EXCEPT !.payments[p].Status = PaymentStatusFail,
                                         !.accounts[a].Balance =
                                             WrapMoney(accounts[a].Balance + payments[p].Amount)])

\* Repeat refusing to repeat a payment of the whole balance (>= for >).
RepeatStrict(paymentID) ==
    LET p == FindPaymentByID(paymentID)
    IN  IF p = 0 THEN Failed(ErrPaymentNotFound)
        ELSE LET a == FindAccountByID(payments[p].AccountID)
             IN  IF a = 0 THEN Failed(ErrAccountNotFound)
                 ELSE IF payments[p].Amount >= accounts[a].Balance
                      THEN Failed(ErrNotEnoughBalance)
                      ELSE Pay(accounts[a].ID, payments[p].Amount, payments[p].Category)

Repeat(paymentID) ==
    LET p == FindPaymentByID(paymentID)
    IN  IF p = 0 THEN Failed(ErrPaymentNotFound)
        ELSE LET a == FindAccountByID(payments[p].AccountID)
             IN  IF a = 0 THEN Failed(ErrAccountNotFound)
                 ELSE IF payments[p].Amount > accounts[a].Balance
                      THEN Failed(ErrNotEnoughBalance)
                      ELSE Pay(accounts[a].ID, payments[p].Amount, payments[p].Category)

\* FavoritePayment that leaves the favorite's AccountID at its zero value.
FavoritePaymentNoAccount(paymentID, name) ==
    LET p == FindPaymentByID(paymentID)
    IN  IF p = 0 THEN Failed(ErrPaymentNotFound)
        ELSE LET favorite == [ID |-> NewUUID, AccountID |-> 0,
                              Name |-> name, Amount |-> payments[p].Amount,
                              Category |-> payments[p].Category]
             IN  Returned(favorite,
                     [Ledger EXCEPT !.uuids = NewUUID,
                                    !.favorites = Append(favorites, favorite)])

\* FavoritePayment that forgets to copy the category.
FavoritePaymentNoCategory(paymentID, name) ==
    LET p == FindPaymentByID(paymentID)
    IN  IF p = 0 THEN Failed(ErrPaymentNotFound)
        ELSE LET favorite == [ID |-> NewUUID, AccountID |-> payments[p].AccountID,
                              Name |-> name, Amount |-> payments[p].Amount,
                              Category |-> ""]
             IN  Returned(favorite,
                     [Ledger EXCEPT !.uuids = NewUUID,
                                    !.favorites = Append(favorites, favorite)])

FavoritePayment(paymentID, name) ==
    LET p == FindPaymentByID(paymentID)
    IN  IF p = 0 THEN Failed(ErrPaymentNotFound)
        ELSE LET favorite == [ID |-> NewUUID, AccountID |-> payments[p].AccountID,
                              Name |-> name, Amount |-> payments[p].Amount,
                              Category |-> payments[p].Category]
             IN  Returned(favorite,
                     [Ledger EXCEPT !.uuids = NewUUID,
                                    !.favorites = Append(favorites, favorite)])

\* PayFromFavorite refusing a payment of the whole balance (>= for >).
PayFromFavoriteStrict(favoriteID) ==
    LET f == FindFavoriteByID(favoriteID)
    IN  IF f = 0 THEN Failed(ErrFavoriteNotFound)
        ELSE LET a == FindAccountByID(favorites[f].AccountID)
             IN  IF a = 0 THEN Failed(ErrAccountNotFound)
                 ELSE IF favorites[f].Amount >= accounts[a].Balance
                      THEN Failed(ErrNotEnoughBalance)
                      ELSE Pay(accounts[a].ID, favorites[f].Amount, favorites[f].Category)

PayFromFavorite(favoriteID) ==
    LET f == FindFavoriteByID(favoriteID)
    IN  IF f = 0 THEN Failed(ErrFavoriteNotFound)
        ELSE LET a == FindAccountByID(favorites[f].AccountID)
             IN  IF a = 0 THEN Failed(ErrAccountNotFound)
                 ELSE IF favorites[f].Amount > accounts[a].Balance
                      THEN Failed(ErrNotEnoughBalance)
                      ELSE Pay(accounts[a].ID, favorites[f].Amount, favorites[f].Category)

(***************************************************************************)
(* The calls as actions.  A call installs the ledger its operation leaves  *)
(* behind and records itself in the history.                               *)
(***************************************************************************)
NoArgs == [phone |-> 0, accountID |-> 0, amount |-> 0, category |-> "", id |-> 0, name |-> ""]

\* Room for the entities a call may append (the model's bounds).
Fits(r) ==
    /\ Len(r.st.accounts) <= MaxAccounts
    /\ Len(r.st.payments) <= MaxPayments
    /\ Len(r.st.favorites) <= MaxFavorites

Install(op, args, r) ==
    /\ calls < MaxCalls
    /\ Fits(r)
    /\ nextAccountID' = r.st.nextAccountID
    /\ accounts' = r.st.accounts
    /\ payments' = r.st.payments
    /\ favorites' = r.st.favorites
    /\ uuids' = r.st.uuids
    /\ last' = [op |-> op, args |-> args, err |-> r.err, ret |-> r.ret]
    /\ calls' = calls + 1
    /\ UNCHANGED <<aggregation, progress, files>>

RegisterAccountCall ==
    \E phone \in Phones :
        /\ Install("RegisterAccount", [NoArgs EXCEPT !.phone = phone], RegisterAccount(phone))
        /\ UNCHANGED <<deposited, rejects, favored>>

DepositCall ==
    \E accountID \in AccountIDs, amount \in Amounts :
        LET r == Deposit(accountID, amount)
        IN  /\ Install("Deposit", [NoArgs EXCEPT !.accountID = accountID, !.amount = amount], r)
            /\ deposited' = IF r.err = ErrNone
                            THEN [deposited EXCEPT ![accountID] = @ + amount]
                            ELSE deposited
            /\ UNCHANGED <<rejects, favored>>

PayCall ==
    \E accountID \in AccountIDs, amount \in Amounts, category \in Categories :
        /\ Install("Pay", [NoArgs EXCEPT !.accountID = accountID, !.amount = amount,
                                         !.category = category],
                   Pay(accountID, amount, category))
        /\ UNCHANGED <<deposited, rejects, favored>>

RejectCall ==
    \E paymentID \in UUIDs :
        LET r == Reject(paymentID)
        IN  /\ Install("Reject", [NoArgs EXCEPT !.id = paymentID], r)
            /\ rejects' = IF r.err = ErrNone
                          THEN [rejects EXCEPT ![paymentID] = @ + 1]
                          ELSE rejects
            /\ UNCHANGED <<deposited, favored>>

RepeatCall ==
    \E paymentID \in UUIDs :
        /\ Install("Repeat", [NoArgs EXCEPT !.id = paymentID], Repeat(paymentID))
        /\ UNCHANGED <<deposited, rejects, favored>>

FavoritePaymentCall ==
    \E paymentID \in UUIDs, name \in Names :
        LET r == FavoritePayment(paymentID, name)
        IN  /\ Install("FavoritePayment", [NoArgs EXCEPT !.id = paymentID, !.name = name], r)
            /\ favored' = IF r.err = ErrNone
                          THEN Append(favored, payments[FindPaymentByID(paymentID)])
                          ELSE favored
            /\ UNCHANGED <<deposited, rejects>>

PayFromFavoriteCall ==
    \E favoriteID \in UUIDs :
        /\ Install("PayFromFavorite", [NoArgs EXCEPT !.id = favoriteID],
                   PayFromFavorite(favoriteID))
        /\ UNCHANGED <<deposited, rejects, favored>>

NoCall == [fn |-> "none", goroutines |-> 0, accountID |-> 0, filter |-> ""]
Idle == [pc |-> "idle", i |-> 0, goroutines |-> 0, paysPerRoutine |-> 0,
         err |-> ErrNone, retSum |-> 0, retPayments |-> <<>>]

NoChannel == [buf |-> <<>>, cap |-> 0, closed |-> FALSE]
NoConsumer == [pc |-> "idle", got |-> <<>>]

\* No file was written yet, no round trip begun.
NoFile == [exists |-> FALSE, content |-> <<>>]
NoRoundTrip == [stage |-> "none", clean |-> FALSE, nextAccountID |-> 0,
                accounts |-> <<>>, payments |-> <<>>, favorites |-> <<>>]

NoDir == [made |-> FALSE, accounts |-> NoFile, payments |-> NoFile, favorites |-> NoFile]

NoFiles ==
    /\ dir = NoDir
    /\ file = NoFile
    /\ roundTrip = NoRoundTrip

NoProgress ==
    /\ routines = 0
    /\ received = 0
    /\ progressChannel = NoChannel
    /\ consumer = NoConsumer

NoAggregation ==
    /\ call = NoCall
    /\ main = Idle
    /\ workers = <<>>
    /\ wg = 0
    /\ mu = -1
    /\ sum = 0
    /\ found = <<>>
    /\ NoProgress
    /\ NoFiles

\* &Service{}: the zero value of the struct.
Init ==
    /\ NoAggregation
    /\ nextAccountID = 0
    /\ accounts = <<>>
    /\ payments = <<>>
    /\ favorites = <<>>
    /\ uuids = 0
    /\ last = [op |-> "new", args |-> NoArgs, err |-> ErrNone, ret |-> 0]
    /\ deposited = [a \in AccountIDs |-> 0]
    /\ rejects = [p \in UUIDs |-> 0]
    /\ calls = 0
    /\ favored = <<>>

Next ==
    \/ RegisterAccountCall
    \/ DepositCall
    \/ PayCall
    \/ RejectCall
    \/ RepeatCall
    \/ FavoritePaymentCall
    \/ PayFromFavoriteCall

Spec == Init /\ [][Next]_vars

(***************************************************************************)
(* The ledger right after a payment was favorited: RegisterAccount,        *)
(* Deposit(1, deposit), Pay(1, amount, category), FavoritePayment.  From   *)
(* here MaxCallsAfterFavorite calls are explored, so that calls between    *)
(* FavoritePayment and PayFromFavorite are within the call bound.          *)
(***************************************************************************)
InitFavorite ==
    \E deposit \in {1, 2, MaxMoney}, amount \in {1, 2, MaxMoney}, category \in Categories :
        LET payment == [ID |-> 1, AccountID |-> 1, Amount |-> amount,
                        Category |-> category, Status |-> PaymentStatusInProgress]
            favorite == [ID |-> 2, AccountID |-> 1, Name |-> "fav",
                         Amount |-> amount, Category |-> category]
        IN  /\ amount <= deposit
            /\ NoAggregation
            /\ nextAccountID = 1
            /\ accounts = <<[ID |-> 1, Phone |-> 1, Balance |-> deposit - amount]>>
            /\ payments = <<payment>>
            /\ favorites = <<favorite>>
            /\ uuids = 2
            /\ last = [op |-> "FavoritePayment",
                       args |-> [NoArgs EXCEPT !.id = 1, !.name = "fav"],
                       err |-> ErrNone, ret |-> favorite]
            /\ deposited = [a \in AccountIDs |-> IF a = 1 THEN deposit ELSE 0]
            /\ rejects = [p \in UUIDs |-> 0]
            /\ calls = MaxCalls - MaxCallsAfterFavorite
            /\ favored = <<payment>>

SpecFavorite == InitFavorite /\ [][Next]_vars

(***************************************************************************)
(* The partitioned aggregations: SumPayments, FilterPayments and           *)
(* FilterPaymentsByFn.  The three functions share one skeleton in the      *)
(* source: clamp the goroutine count, size the partitions, spawn one       *)
(* goroutine per partition, merge each partial result under the mutex,     *)
(* wait for the wait group, return the accumulator.                        *)
(***************************************************************************)
Goroutines == 0 .. MaxGoroutines
AggAmounts == {1, 2, MaxMoney}
Filters == {"FilterMobile", "FilterAuto"}

\* if goroutines < 1 { goroutines = 1 }
ClampGoroutines(goroutines) == IF goroutines < 1 THEN 1 ELSE goroutines

\* The partition size without the + 1.
PaysPerRoutineFloor(total, goroutines) == total \div goroutines

\* paysPerRoutine := (len(s.payments) / goroutines) + 1
PaysPerRoutine(total, goroutines) == (total \div goroutines) + 1

\* A mutex that excludes nobody.
MutexAlwaysFree(m) == TRUE

\* mu.Lock() returns only when no goroutine holds the mutex.
MutexFree(m) == m = -1

\* The caller-supplied predicate of FilterPaymentsByFn; FilterMobile is the
\* one the source defines.
FilterMobile(payment) == payment.Category = "mobile"
ApplyFilter(filter, payment) ==
    IF filter = "FilterMobile" THEN FilterMobile(payment) ELSE payment.Category = "auto"

\* Whether a worker of the call keeps payment in its partial slice.
Keeps(payment) ==
    IF call.fn = "FilterPayments" THEN payment.AccountID = call.accountID
    ELSE ApplyFilter(call.filter, payment)

\* A worker that starts its scan at index 0 whatever its iteration.
NewWorkerFromZero(iteration, paysPerRoutine) ==
    [pc |-> "scan", iteration |-> iteration, j |-> 0,
     partialSum |-> 0, partialPayments |-> <<>>, readSum |-> 0, readPayments |-> <<>>]

NewWorker(iteration, paysPerRoutine) ==
    [pc |-> "scan", iteration |-> iteration, j |-> iteration * paysPerRoutine,
     partialSum |-> 0, partialPayments |-> <<>>, readSum |-> 0, readPayments |-> <<>>]

Workers == 1 .. Len(workers)

\* Entry of a call: the locals declared before the spawning loop.
Begin(fn) ==
    /\ call.fn = fn
    /\ main.pc = "call"
    /\ main' = [main EXCEPT !.pc = "spawn", !.i = 0,
                            !.goroutines = ClampGoroutines(call.goroutines),
                            !.paysPerRoutine = PaysPerRoutine(Len(payments),
                                                   ClampGoroutines(call.goroutines))]
    /\ wg' = 0
    /\ mu' = -1
    /\ sum' = 0
    /\ found' = <<>>
    /\ UNCHANGED <<ledger, history, files, progress, call, workers>>

\* One iteration of the spawning loop: wg.Add(1); go func(i).
Spawn(fn) ==
    /\ call.fn = fn
    /\ main.pc = "spawn"
    /\ main.i < main.goroutines
    /\ wg' = wg + 1
    /\ workers' = Append(workers, NewWorker(main.i, main.paysPerRoutine))
    /\ main' = [main EXCEPT !.i = main.i + 1,
                            !.pc = IF main.i + 1 < main.goroutines THEN "spawn" ELSE "wait"]
    /\ UNCHANGED <<ledger, history, files, progress, call, mu, sum, found>>

\* One evaluation of the scanning loop of worker w: the loop condition, the
\* out-of-range break, and the body on s.payments[j].
Scan(fn, w) ==
    LET self == workers[w]
        higherEnd == (self.iteration * main.paysPerRoutine) + main.paysPerRoutine
    IN  /\ call.fn = fn
        /\ self.pc = "scan"
        /\ IF self.j < higherEnd /\ ~(self.j > Len(payments) - 1)
           THEN LET payment == payments[self.j + 1]
                IN  workers' = [workers EXCEPT
                        ![w].j = self.j + 1,
                        ![w].partialSum =
                            IF fn = "SumPayments"
                            THEN WrapMoney(self.partialSum + payment.Amount)
                            ELSE self.partialSum,
                        ![w].partialPayments =
                            IF fn # "SumPayments" /\ Keeps(payment)
                            THEN Append(self.partialPayments, payment)
                            ELSE self.partialPayments]
           ELSE workers' = [workers EXCEPT ![w].pc = "lock"]
        /\ UNCHANGED <<ledger, history, files, progress, call, main, wg, mu, sum, found>>

\* mu.Lock()
Lock(fn, w) ==
    /\ call.fn = fn
    /\ workers[w].pc = "lock"
    /\ MutexFree(mu)
    /\ mu' = workers[w].iteration
    /\ workers' = [workers EXCEPT ![w].pc = "read"]
    /\ UNCHANGED <<ledger, history, files, progress, call, main, wg, sum, found>>

\* The merge reads the accumulator ...
Read(fn, w) ==
    /\ call.fn = fn
    /\ workers[w].pc = "read"
    /\ workers' = [workers EXCEPT ![w].pc = "write",
                                  ![w].readSum = sum,
                                  ![w].readPayments = found]
    /\ UNCHANGED <<ledger, history, files, progress, call, main, wg, mu, sum, found>>

\* ... and writes it back with the partial result merged in.
Write(fn, w) ==
    /\ call.fn = fn
    /\ workers[w].pc = "write"
    /\ sum' = IF fn = "SumPayments"
              THEN WrapMoney(workers[w].readSum + workers[w].partialSum)
              ELSE sum
    /\ found' = IF fn = "SumPayments"
                THEN found
                ELSE workers[w].readPayments \o workers[w].partialPayments
    /\ workers' = [workers EXCEPT ![w].pc = "unlock"]
    /\ UNCHANGED <<ledger, history, files, progress, call, main, wg, mu>>

\* A worker that leaves without releasing the mutex.
UnlockForgotten(fn, w) ==
    /\ call.fn = fn
    /\ workers[w].pc = "unlock"
    /\ workers' = [workers EXCEPT ![w].pc = "exit"]
    /\ UNCHANGED <<ledger, history, files, progress, call, main, wg, mu, sum, found>>

\* defer mu.Unlock()
Unlock(fn, w) ==
    /\ call.fn = fn
    /\ workers[w].pc = "unlock"
    /\ mu' = -1
    /\ workers' = [workers EXCEPT ![w].pc = "exit"]
    /\ UNCHANGED <<ledger, history, files, progress, call, main, wg, sum, found>>

\* defer wg.Done()
Done(fn, w) ==
    /\ call.fn = fn
    /\ workers[w].pc = "exit"
    /\ wg' = wg - 1
    /\ workers' = [workers EXCEPT ![w].pc = "done"]
    /\ UNCHANGED <<ledger, history, files, progress, call, main, mu, sum, found>>

\* A return that does not wait for the wait group.
WaitNoJoin(fn) ==
    /\ call.fn = fn
    /\ main.pc = "wait"
    /\ main' = [main EXCEPT !.pc = "returned", !.err = ErrNone,
                            !.retSum = sum, !.retPayments = found]
    /\ UNCHANGED <<ledger, history, files, progress, call, workers, wg, mu, sum, found>>

\* wg.Wait() and the return of the accumulator.
Wait(fn) ==
    /\ call.fn = fn
    /\ main.pc = "wait"
    /\ wg = 0
    /\ main' = [main EXCEPT !.pc = "returned", !.err = ErrNone,
                            !.retSum = sum, !.retPayments = found]
    /\ UNCHANGED <<ledger, history, files, progress, call, workers, wg, mu, sum, found>>

SumPaymentsBegin == Begin("SumPayments")
SumPaymentsSpawn == Spawn("SumPayments")
SumPaymentsScan == \E w \in Workers : Scan("SumPayments", w)
SumPaymentsLock == \E w \in Workers : Lock("SumPayments", w)
SumPaymentsRead == \E w \in Workers : Read("SumPayments", w)
SumPaymentsWrite == \E w \in Workers : Write("SumPayments", w)
SumPaymentsUnlock == \E w \in Workers : Unlock("SumPayments", w)
SumPaymentsDone == \E w \in Workers : Done("SumPayments", w)
SumPaymentsWait == Wait("SumPayments")

\* FilterPayments without the lookup of the account.
FilterPaymentsBeginNoCheck == Begin("FilterPayments")

\* FilterPayments looks the account up before anything else.
FilterPaymentsBegin ==
    IF FindAccountByID(call.accountID) = 0
    THEN /\ call.fn = "FilterPayments"
         /\ main.pc = "call"
         /\ main' = [main EXCEPT !.pc = "returned", !.err = ErrAccountNotFound]
         /\ UNCHANGED <<ledger, history, files, progress, call, workers, wg, mu, sum, found>>
    ELSE Begin("FilterPayments")
FilterPaymentsSpawn == Spawn("FilterPayments")
FilterPaymentsScan == \E w \in Workers : Scan("FilterPayments", w)
FilterPaymentsLock == \E w \in Workers : Lock("FilterPayments", w)
FilterPaymentsRead == \E w \in Workers : Read("FilterPayments", w)
FilterPaymentsWrite == \E w \in Workers : Write("FilterPayments", w)
FilterPaymentsUnlock == \E w \in Workers : Unlock("FilterPayments", w)
FilterPaymentsDone == \E w \in Workers : Done("FilterPayments", w)
FilterPaymentsWait == Wait("FilterPayments")

FilterPaymentsByFnBegin == Begin("FilterPaymentsByFn")
FilterPaymentsByFnSpawn == Spawn("FilterPaymentsByFn")
FilterPaymentsByFnScan == \E w \in Workers : Scan("FilterPaymentsByFn", w)
FilterPaymentsByFnLock == \E w \in Workers : Lock("FilterPaymentsByFn", w)
FilterPaymentsByFnRead == \E w \in Workers : Read("FilterPaymentsByFn", w)
FilterPaymentsByFnWrite == \E w \in Workers : Write("FilterPaymentsByFn", w)
FilterPaymentsByFnUnlock == \E w \in Workers : Unlock("FilterPaymentsByFn", w)
FilterPaymentsByFnDone == \E w \in Workers : Done("FilterPaymentsByFn", w)
FilterPaymentsByFnWait == Wait("FilterPaymentsByFn")

(***************************************************************************)
(* The ledgers the aggregations start from.  Every account was registered  *)
(* and received one deposit of MaxMoney; every payment was paid and then   *)
(* rejected once (which restores the balance), so any sequence of positive *)
(* amounts is a ledger the operations above can build.                     *)
(***************************************************************************)
AggLedger(n, accountOf, amountOf, categoryOf) ==
    /\ nextAccountID = MaxAccounts
    /\ accounts = [a \in 1 .. MaxAccounts |-> [ID |-> a, Phone |-> a, Balance |-> MaxMoney]]
    /\ payments = [p \in 1 .. n |->
                      [ID |-> p, AccountID |-> accountOf[p], Amount |-> amountOf[p],
                       Category |-> categoryOf[p], Status |-> PaymentStatusFail]]
    /\ favorites = <<>>
    /\ uuids = n
    /\ last = [op |-> "new", args |-> NoArgs, err |-> ErrNone, ret |-> 0]
    /\ deposited = [a \in AccountIDs |-> IF a <= MaxAccounts THEN MaxMoney ELSE 0]
    /\ rejects = [p \in UUIDs |-> IF p <= n THEN 1 ELSE 0]
    /\ calls = 0
    /\ favored = <<>>

AggStart(c) ==
    /\ call = c
    /\ main = [Idle EXCEPT !.pc = "call"]
    /\ workers = <<>>
    /\ wg = 0
    /\ mu = -1
    /\ sum = 0
    /\ found = <<>>
    /\ NoProgress
    /\ NoFiles

InitSum ==
    \E n \in 0 .. MaxLen, goroutines \in Goroutines :
      \E amountOf \in [1 .. n -> AggAmounts] :
        /\ AggLedger(n, [p \in 1 .. n |-> 1], amountOf, [p \in 1 .. n |-> "auto"])
        /\ AggStart([NoCall EXCEPT !.fn = "SumPayments", !.goroutines = goroutines])

NextSum ==
    \/ SumPaymentsBegin
    \/ SumPaymentsSpawn
    \/ SumPaymentsScan
    \/ SumPaymentsLock
    \/ SumPaymentsRead
    \/ SumPaymentsWrite
    \/ SumPaymentsUnlock
    \/ SumPaymentsDone
    \/ SumPaymentsWait

SpecSum == InitSum /\ [][NextSum]_vars

InitFilter ==
    \E n \in 0 .. MaxLen, goroutines \in Goroutines, accountID \in AccountIDs :
      \E accountOf \in [1 .. n -> 1 .. MaxAccounts] :
        /\ AggLedger(n, accountOf, [p \in 1 .. n |-> 1], [p \in 1 .. n |-> "auto"])
        /\ AggStart([NoCall EXCEPT !.fn = "FilterPayments", !.goroutines = goroutines,
                                   !.accountID = accountID])

NextFilter ==
    \/ FilterPaymentsBegin
    \/ FilterPaymentsSpawn
    \/ FilterPaymentsScan
    \/ FilterPaymentsLock
    \/ FilterPaymentsRead
    \/ FilterPaymentsWrite
    \/ FilterPaymentsUnlock
    \/ FilterPaymentsDone
    \/ FilterPaymentsWait

SpecFilter == InitFilter /\ [][NextFilter]_vars

InitFilterFn ==
    \E n \in 0 .. MaxLen, goroutines \in Goroutines, filter \in Filters :
      \E categoryOf \in [1 .. n -> Categories] :
        /\ AggLedger(n, [p \in 1 .. n |-> 1], [p \in 1 .. n |-> 1], categoryOf)
        /\ AggStart([NoCall EXCEPT !.fn = "FilterPaymentsByFn", !.goroutines = goroutines,
                                   !.filter = filter])

NextFilterFn ==
    \/ FilterPaymentsByFnBegin
    \/ FilterPaymentsByFnSpawn
    \/ FilterPaymentsByFnScan
    \/ FilterPaymentsByFnLock
    \/ FilterPaymentsByFnRead
    \/ FilterPaymentsByFnWrite
    \/ FilterPaymentsByFnUnlock
    \/ FilterPaymentsByFnDone
    \/ FilterPaymentsByFnWait

SpecFilterFn == InitFilterFn /\ [][NextFilterFn]_vars

(***************************************************************************)
(* SumPaymentsWithProgress: one goroutine per batch of BatchSize payments, *)
(* started by the calling goroutine, which receives the batch sum on an    *)
(* unbuffered channel and puts a Progress entry on the buffered            *)
(* progressChannel before the next iteration.  The caller of the function  *)
(* then ranges over the returned channel.                                  *)
(***************************************************************************)
Min(a, b) == IF a < b THEN a ELSE b

\* routines := 1 + len(s.payments) / batchSize
Routines(total) == 1 + (total \div BatchSize)

\* A channel made without a buffer.
ProgressBeginUnbuffered ==
    /\ call.fn = "SumPaymentsWithProgress"
    /\ main.pc = "call"
    /\ routines' = Routines(Len(payments))
    /\ progressChannel' = [buf |-> <<>>, cap |-> 0, closed |-> FALSE]
    /\ wg' = 0
    /\ main' = [main EXCEPT !.pc = "spawn", !.i = 0]
    /\ UNCHANGED <<ledger, history, files, call, workers, mu, sum, found, received, consumer>>

\* The locals declared before the loop: batchSize, routines, wg and
\* progressChannel := make(chan Progress, routines).
ProgressBegin ==
    /\ call.fn = "SumPaymentsWithProgress"
    /\ main.pc = "call"
    /\ routines' = Routines(Len(payments))
    /\ progressChannel' = [buf |-> <<>>, cap |-> Routines(Len(payments)), closed |-> FALSE]
    /\ wg' = 0
    /\ main' = [main EXCEPT !.pc = "spawn", !.i = 0]
    /\ UNCHANGED <<ledger, history, files, call, workers, mu, sum, found, received, consumer>>

\* A loop that starts the next goroutine without receiving from the one it
\* just started.
ProgressSpawnAhead ==
    LET batchStart == main.i * BatchSize
        batchEnd == Min((1 + main.i) * BatchSize, Len(payments))
    IN  /\ call.fn = "SumPaymentsWithProgress"
        /\ main.pc = "spawn"
        /\ main.i < routines
        /\ wg' = wg + 1
        /\ workers' = Append(workers, [pc |-> "scan", iteration |-> main.i,
                                       j |-> batchStart, batchEnd |-> batchEnd,
                                       sum |-> 0])
        /\ main' = [main EXCEPT !.i = main.i + 1,
                                !.pc = IF main.i + 1 < routines THEN "spawn" ELSE "receive"]
        /\ UNCHANGED <<ledger, history, files, call, mu, sum, found, progress>>

\* The head of one iteration: wg.Add(1), the bounds of the batch, the slice
\* expression s.payments[batchStart:batchEnd] (which panics when
\* batchStart > batchEnd) and the go statement.
ProgressSpawn ==
    LET batchStart == main.i * BatchSize
        batchEnd == Min((1 + main.i) * BatchSize, Len(payments))
    IN  /\ call.fn = "SumPaymentsWithProgress"
        /\ main.pc = "spawn"
        /\ main.i < routines
        /\ wg' = wg + 1
        /\ IF batchStart > batchEnd
           THEN /\ main' = [main EXCEPT !.pc = "panic"]
                /\ UNCHANGED workers
           ELSE /\ workers' = Append(workers, [pc |-> "scan", iteration |-> main.i,
                                               j |-> batchStart, batchEnd |-> batchEnd,
                                               sum |-> 0])
                /\ main' = [main EXCEPT !.pc = "receive"]
        /\ UNCHANGED <<ledger, history, files, call, mu, sum, found, progress>>

\* A worker that appends to s.payments what it reads.
ProgressScanAppending ==
    \E w \in Workers :
        LET self == workers[w]
        IN  /\ call.fn = "SumPaymentsWithProgress"
            /\ self.pc = "scan"
            /\ IF self.j < self.batchEnd
               THEN /\ workers' = [workers EXCEPT
                           ![w].j = self.j + 1,
                           ![w].sum = WrapMoney(self.sum + payments[self.j + 1].Amount)]
                    /\ payments' = Append(payments, payments[self.j + 1])
               ELSE /\ workers' = [workers EXCEPT ![w].pc = "send"]
                    /\ UNCHANGED payments
            /\ UNCHANGED <<nextAccountID, accounts, favorites, uuids, history, files, call,
                           main, wg, mu, sum, found, progress>>

\* One evaluation of the worker's loop over its batch: sum += pay.Amount.
ProgressScan ==
    \E w \in Workers :
        LET self == workers[w]
        IN  /\ call.fn = "SumPaymentsWithProgress"
            /\ self.pc = "scan"
            /\ IF self.j < self.batchEnd
               THEN workers' = [workers EXCEPT
                        ![w].j = self.j + 1,
                        ![w].sum = WrapMoney(self.sum + payments[self.j + 1].Amount)]
               ELSE workers' = [workers EXCEPT ![w].pc = "send"]
            /\ UNCHANGED <<ledger, history, files, call, main, wg, mu, sum, found, progress>>

\* The rendezvous on the unbuffered channel subtotal of the iteration:
\* sub <- sum in the worker, <-subtotal in the calling goroutine.
ProgressReceive ==
    \E w \in Workers :
        /\ call.fn = "SumPaymentsWithProgress"
        /\ main.pc = "receive"
        /\ workers[w].pc = "send"
        /\ workers[w].iteration = main.i
        /\ received' = workers[w].sum
        /\ workers' = [workers EXCEPT ![w].pc = "exit"]
        /\ main' = [main EXCEPT !.pc = "enqueue"]
        /\ UNCHANGED <<ledger, history, files, call, wg, mu, sum, found,
                       routines, progressChannel, consumer>>

\* progressChannel <- Progress{Part: i, Result: ...}: blocks while the
\* buffer is full; then i++ and the loop condition.
ProgressEnqueue ==
    /\ call.fn = "SumPaymentsWithProgress"
    /\ main.pc = "enqueue"
    /\ Len(progressChannel.buf) < progressChannel.cap
    /\ progressChannel' = [progressChannel EXCEPT
           !.buf = Append(progressChannel.buf, [Part |-> main.i, Result |-> received])]
    /\ main' = [main EXCEPT !.i = main.i + 1,
                            !.pc = IF main.i + 1 < routines THEN "spawn" ELSE "wait"]
    /\ UNCHANGED <<ledger, history, files, call, workers, wg, mu, sum, found,
                   routines, received, consumer>>

\* defer wg.Done() of a worker.
ProgressDone ==
    \E w \in Workers :
        /\ call.fn = "SumPaymentsWithProgress"
        /\ workers[w].pc = "exit"
        /\ wg' = wg - 1
        /\ workers' = [workers EXCEPT ![w].pc = "done"]
        /\ UNCHANGED <<ledger, history, files, call, main, mu, sum, found, progress>>

\* wg.Wait() and the evaluation of the return statement.
ProgressWait ==
    /\ call.fn = "SumPaymentsWithProgress"
    /\ main.pc = "wait"
    /\ wg = 0
    /\ main' = [main EXCEPT !.pc = "close"]
    /\ UNCHANGED <<ledger, history, files, call, workers, wg, mu, sum, found, progress>>

\* defer close(progressChannel) runs before the caller gets the channel.
ProgressClose ==
    /\ call.fn = "SumPaymentsWithProgress"
    /\ main.pc = "close"
    /\ progressChannel' = [progressChannel EXCEPT !.closed = TRUE]
    /\ main' = [main EXCEPT !.pc = "returned", !.err = ErrNone]
    /\ consumer' = [consumer EXCEPT !.pc = "range"]
    /\ UNCHANGED <<ledger, history, files, call, workers, wg, mu, sum, found,
                   routines, received>>

\* for i := range s.SumPaymentsWithProgress(): one entry received.
ProgressConsume ==
    /\ call.fn = "SumPaymentsWithProgress"
    /\ consumer.pc = "range"
    /\ progressChannel.buf # <<>>
    /\ consumer' = [consumer EXCEPT !.got = Append(consumer.got, Head(progressChannel.buf))]
    /\ progressChannel' = [progressChannel EXCEPT !.buf = Tail(progressChannel.buf)]
    /\ UNCHANGED <<ledger, history, files, aggregation, routines, received>>

\* The range loop ends when the channel is closed and drained.
ProgressConsumeEnd ==
    /\ call.fn = "SumPaymentsWithProgress"
    /\ consumer.pc = "range"
    /\ progressChannel.buf = <<>>
    /\ progressChannel.closed
    /\ consumer' = [consumer EXCEPT !.pc = "done"]
    /\ UNCHANGED <<ledger, history, files, aggregation, routines, received, progressChannel>>

InitProgress ==
    \E n \in 0 .. MaxLen :
      \E amountOf \in [1 .. n -> AggAmounts] :
        /\ AggLedger(n, [p \in 1 .. n |-> 1], amountOf, [p \in 1 .. n |-> "auto"])
        /\ AggStart([NoCall EXCEPT !.fn = "SumPaymentsWithProgress"])

NextProgress ==
    \/ ProgressBegin
    \/ ProgressSpawn
    \/ ProgressScan
    \/ ProgressReceive
    \/ ProgressEnqueue
    \/ ProgressDone
    \/ ProgressWait
    \/ ProgressClose
    \/ ProgressConsume
    \/ ProgressConsumeEnd

SpecProgress == InitProgress /\ [][NextProgress]_vars

\* The Go scheduler runs a goroutine that can take a step.
SpecProgressFair == SpecProgress /\ WF_vars(NextProgress)

(***************************************************************************)
(* Any one of the four aggregation calls.                                  *)
(***************************************************************************)
InitAggregations ==
    \/ InitSum
    \/ InitFilter
    \/ InitFilterFn
    \/ InitProgress

NextAggregations ==
    \/ NextSum
    \/ NextFilter
    \/ NextFilterFn
    \/ NextProgress

SpecAggregations == InitAggregations /\ [][NextAggregations]_vars

\* The schedules of the four calls.  Which steps a call takes depends on the
\* number of payments, on the goroutine count and, for FilterPayments, on
\* whether the account exists, never on the payments' fields: these are
\* fixed here, every payment being a mobile payment of 1 by account 1.
InitSchedules ==
    \E n \in 0 .. MaxLen, goroutines \in Goroutines,
       fn \in {"SumPayments", "FilterPayments", "FilterPaymentsByFn",
               "SumPaymentsWithProgress"},
       accountID \in {1, MaxAccounts + 1} :
        /\ AggLedger(n, [p \in 1 .. n |-> 1], [p \in 1 .. n |-> 1],
                     [p \in 1 .. n |-> "mobile"])
        /\ AggStart([NoCall EXCEPT
               !.fn = fn,
               !.goroutines = IF fn = "SumPaymentsWithProgress" THEN 0 ELSE goroutines,
               !.accountID = IF fn = "FilterPayments" THEN accountID ELSE 0,
               !.filter = IF fn = "FilterPaymentsByFn" THEN "FilterMobile" ELSE ""])

SpecSchedules == InitSchedules /\ [][NextAggregations]_vars

\* The Go scheduler runs a goroutine that can take a step.
SpecSchedulesFair == SpecSchedules /\ WF_vars(NextAggregations)

(***************************************************************************)
(* Export and Import, ExportToFile and ImportFromFile.  A Go string is the *)
(* sequence of its characters; a word without separators in it stands for  *)
(* itself as one character ("auto", "FAIL", an identifier of uuid.New()).   *)
(* A file is its content, a sequence of characters.                        *)
(***************************************************************************)
DigitChars == <<"0", "1", "2", "3", "4", "5", "6", "7", "8", "9">>

\* strconv.AppendInt(buffer, n, 10): the decimal digits of n, "-" first
\* when n is negative.
RECURSIVE Digits(_)
Digits(n) ==
    IF n < 10 THEN <<DigitChars[n + 1]>>
    ELSE Digits(n \div 10) \o <<DigitChars[(n % 10) + 1]>>
FormatInt(n) == IF n < 0 THEN <<"-">> \o Digits(0 - n) ELSE Digits(n)

DigitValue(c) == CHOOSE d \in 0 .. 9 : DigitChars[d + 1] = c
IsDigit(c) == \E d \in 0 .. 9 : DigitChars[d + 1] = c

RECURSIVE DigitsValue(_)
DigitsValue(s) ==
    IF s = <<>> THEN 0
    ELSE 10 * DigitsValue(SubSeq(s, 1, Len(s) - 1)) + DigitValue(s[Len(s)])

\* n, _ := strconv.Atoi(s): an optional sign and one or more digits; for
\* anything else Atoi returns 0 with an error, which the callers drop.
Atoi(s) ==
    LET signed == s # <<>> /\ Head(s) \in {"-", "+"}
        digits == IF signed THEN Tail(s) ELSE s
    IN  IF digits = <<>> \/ \E i \in 1 .. Len(digits) : ~IsDigit(digits[i]) THEN 0
        ELSE IF signed /\ Head(s) = "-" THEN 0 - DigitsValue(digits)
        ELSE DigitsValue(digits)

\* strings.Split(s, sep) for a sep of one character: the pieces between the
\* separators; one more piece than there are separators.
RECURSIVE Split(_, _)
Split(s, sep) ==
    LET hits == {i \in 1 .. Len(s) : s[i] = sep}
    IN  IF hits = {} THEN <<s>>
        ELSE LET i == CHOOSE h \in hits : \A g \in hits : h <= g
             IN  <<SubSeq(s, 1, i - 1)>> \o Split(SubSeq(s, i + 1, Len(s)), sep)

\* The records of a file: split at the terminator, a last empty piece dropped.
Records(content, terminator) ==
    LET records == Split(content, terminator)
    IN  IF records[Len(records)] = <<>> THEN SubSeq(records, 1, Len(records) - 1)
        ELSE records

RECURSIVE Concat(_)
Concat(lines) == IF lines = <<>> THEN <<>> ELSE Head(lines) \o Concat(Tail(lines))

File(content) == [exists |-> TRUE, content |-> content]

\* One line of accounts.dump, payments.dump and favorites.dump.
AccountLine(account, terminator) ==
    FormatInt(account.ID) \o <<";">> \o account.Phone \o <<";">>
        \o FormatInt(account.Balance) \o <<terminator>>
PaymentLine(payment) ==
    payment.ID \o <<";">> \o FormatInt(payment.AccountID) \o <<";">>
        \o FormatInt(payment.Amount) \o <<";">> \o payment.Category \o <<";">>
        \o payment.Status \o <<"\n">>
FavoriteLine(favorite) ==
    favorite.ID \o <<";">> \o FormatInt(favorite.AccountID) \o <<";">>
        \o favorite.Name \o <<";">> \o FormatInt(favorite.Amount) \o <<";">>
        \o favorite.Category \o <<"\n">>

\* Export(dir): the directory is made if it does not exist; a dump file is
\* written for each collection that is not empty, the others are not touched.
Export ==
    [made |-> TRUE,
     accounts |-> IF Len(accounts) # 0
                  THEN File(Concat([a \in 1 .. Len(accounts) |->
                                       AccountLine(accounts[a], "\n")]))
                  ELSE dir.accounts,
     payments |-> IF Len(payments) # 0
                  THEN File(Concat([p \in 1 .. Len(payments) |-> PaymentLine(payments[p])]))
                  ELSE dir.payments,
     favorites |-> IF Len(favorites) # 0
                   THEN File(Concat([f \in 1 .. Len(favorites) |->
                                        FavoriteLine(favorites[f])]))
                   ELSE dir.favorites]

\* ExportToFile(path): the accounts, each record ended by "|".
ExportToFile ==
    File(Concat([a \in 1 .. Len(accounts) |-> AccountLine(accounts[a], "|")]))

\* The loops of Import over the records of a dump file: the entity with the
\* record's ID is updated in place, a record with a new ID is appended.  A
\* record with fewer fields than the loop indexes makes the index expression
\* panic, with the records before it already applied.
RECURSIVE UpsertAccounts(_, _)
UpsertAccounts(list, records) ==
    IF records = <<>> THEN [panic |-> FALSE, list |-> list]
    ELSE LET fields == Split(Head(records), ";")
         IN  IF Len(fields) < 3 THEN [panic |-> TRUE, list |-> list]
             ELSE LET accountID == Atoi(fields[1])
                      accountPhone == fields[2]
                      accountBalance == Atoi(fields[3])
                      i == FirstIndexByID(list, accountID)
                  IN  UpsertAccounts(
                          IF i = 0
                          THEN Append(list, [ID |-> accountID, Phone |-> accountPhone,
                                             Balance |-> accountBalance])
                          ELSE [list EXCEPT ![i].Phone = accountPhone,
                                            ![i].Balance = accountBalance],
                          Tail(records))

RECURSIVE UpsertPayments(_, _)
UpsertPayments(list, records) ==
    IF records = <<>> THEN [panic |-> FALSE, list |-> list]
    ELSE LET fields == Split(Head(records), ";")
         IN  IF Len(fields) < 5 THEN [panic |-> TRUE, list |-> list]
             ELSE LET payment == [ID |-> fields[1], AccountID |-> Atoi(fields[2]),
                                  Amount |-> Atoi(fields[3]), Category |-> fields[4],
                                  Status |-> fields[5]]
                      i == FirstIndexByID(list, fields[1])
                  IN  UpsertPayments(
                          IF i = 0 THEN Append(list, payment)
                          ELSE [list EXCEPT ![i] = payment],
                          Tail(records))

RECURSIVE UpsertFavorites(_, _)
UpsertFavorites(list, records) ==
    IF records = <<>> THEN [panic |-> FALSE, list |-> list]
    ELSE LET fields == Split(Head(records), ";")
         IN  IF Len(fields) < 5 THEN [panic |-> TRUE, list |-> list]
             ELSE LET favorite == [ID |-> fields[1], AccountID |-> Atoi(fields[2]),
                                   Name |-> fields[3], Amount |-> Atoi(fields[4]),
                                   Category |-> fields[5]]
                      i == FirstIndexByID(list, fields[1])
                  IN  UpsertFavorites(
                          IF i = 0 THEN Append(list, favorite)
                          ELSE [list EXCEPT ![i] = favorite],
                          Tail(records))

\* var max = int64(0); for _, acc := range s.accounts { if acc.ID > max ... }
RECURSIVE MaxAccountID(_)
MaxAccountID(list) ==
    IF list = <<>> THEN 0
    ELSE LET max == MaxAccountID(Tail(list))
         IN  IF Head(list).ID > max THEN Head(list).ID ELSE max

ErrNotExist == "file does not exist"
ErrPanic == "panic: index out of range"

\* Import(dir): the three dump files that exist, in the order accounts,
\* payments, favorites; the counter is recomputed after the accounts.
Import ==
    IF ~dir.made THEN Failed(ErrNotExist)
    ELSE LET a == IF dir.accounts.exists
                  THEN UpsertAccounts(accounts, Records(dir.accounts.content, "\n"))
                  ELSE [panic |-> FALSE, list |-> accounts]
             p == IF dir.payments.exists
                  THEN UpsertPayments(payments, Records(dir.payments.content, "\n"))
                  ELSE [panic |-> FALSE, list |-> payments]
             f == IF dir.favorites.exists
                  THEN UpsertFavorites(favorites, Records(dir.favorites.content, "\n"))
                  ELSE [panic |-> FALSE, list |-> favorites]
             counter == IF dir.accounts.exists THEN MaxAccountID(a.list) ELSE nextAccountID
         IN  IF a.panic
             THEN [err |-> ErrPanic, ret |-> 0,
                   st |-> [Ledger EXCEPT !.accounts = a.list]]
             ELSE IF p.panic
             THEN [err |-> ErrPanic, ret |-> 0,
                   st |-> [Ledger EXCEPT !.accounts = a.list, !.nextAccountID = counter,
                                         !.payments = p.list]]
             ELSE IF f.panic
             THEN [err |-> ErrPanic, ret |-> 0,
                   st |-> [Ledger EXCEPT !.accounts = a.list, !.nextAccountID = counter,
                                         !.payments = p.list, !.favorites = f.list]]
             ELSE Returned(0, [Ledger EXCEPT !.accounts = a.list,
                                             !.nextAccountID = counter,
                                             !.payments = p.list, !.favorites = f.list])

\* The loop of ImportFromFile: every record is appended as a new account.
RECURSIVE AppendAccounts(_, _)
AppendAccounts(list, records) ==
    IF records = <<>> THEN [panic |-> FALSE, list |-> list]
    ELSE LET fields == Split(Head(records), ";")
         IN  IF Len(fields) < 3 THEN [panic |-> TRUE, list |-> list]
             ELSE AppendAccounts(
                      Append(list, [ID |-> Atoi(fields[1]), Phone |-> fields[2],
                                    Balance |-> Atoi(fields[3])]),
                      Tail(records))

\* ImportFromFile(path)
ImportFromFile ==
    IF ~file.exists THEN Failed(ErrNotExist)
    ELSE LET a == AppendAccounts(accounts, Records(file.content, "|"))
         IN  [err |-> IF a.panic THEN ErrPanic ELSE ErrNone, ret |-> 0,
              st |-> [Ledger EXCEPT !.accounts = a.list]]

\* A call of the codec: the ledger and the record of the call; the files are
\* the caller's.
CodecInstall(op, r) ==
    /\ calls < MaxCalls
    /\ nextAccountID' = r.st.nextAccountID
    /\ accounts' = r.st.accounts
    /\ payments' = r.st.payments
    /\ favorites' = r.st.favorites
    /\ uuids' = r.st.uuids
    /\ last' = [op |-> op, args |-> NoArgs, err |-> r.err, ret |-> r.ret]
    /\ calls' = calls + 1
    /\ UNCHANGED <<aggregation, progress>>

\* Whether the directory holds, after Export, nothing but what Export wrote.
CleanExport ==
    /\ Len(accounts) # 0 \/ ~dir.accounts.exists
    /\ Len(payments) # 0 \/ ~dir.payments.exists
    /\ Len(favorites) # 0 \/ ~dir.favorites.exists

ExportCall ==
    /\ CodecInstall("Export", Returned(0, Ledger))
    /\ dir' = Export
    /\ roundTrip' = [stage |-> "exported", clean |-> CleanExport,
                     nextAccountID |-> nextAccountID, accounts |-> accounts,
                     payments |-> payments, favorites |-> favorites]
    /\ UNCHANGED <<file, deposited, rejects, favored>>

ExportToFileCall ==
    /\ CodecInstall("ExportToFile", Returned(0, Ledger))
    /\ file' = ExportToFile
    /\ UNCHANGED <<dir, roundTrip, deposited, rejects, favored>>

\* s := newTestService(): a fresh store; the files stay.
NewServiceCall ==
    /\ CodecInstall("New", Returned(0, [Ledger EXCEPT !.nextAccountID = 0,
                                                      !.accounts = <<>>,
                                                      !.payments = <<>>,
                                                      !.favorites = <<>>]))
    /\ roundTrip' = [roundTrip EXCEPT
           !.stage = IF roundTrip.stage = "exported" THEN "fresh" ELSE "none"]
    /\ deposited' = [a \in AccountIDs |-> 0]
    /\ rejects' = [p \in UUIDs |-> 0]
    /\ favored' = <<>>
    /\ UNCHANGED <<dir, file>>

ImportCall ==
    /\ CodecInstall("Import", Import)
    /\ roundTrip' = [roundTrip EXCEPT
           !.stage = IF roundTrip.stage = "fresh" THEN "imported" ELSE "none"]
    /\ UNCHANGED <<dir, file, deposited, rejects, favored>>

ImportFromFileCall ==
    /\ CodecInstall("ImportFromFile", ImportFromFile)
    /\ roundTrip' = [roundTrip EXCEPT !.stage = "none"]
    /\ UNCHANGED <<dir, file, deposited, rejects, favored>>

\* The strings of the ledgers that are exported.  Phones, categories and
\* names are whatever the caller passed: a name may hold a ";" or a line
\* break.  uuid.New().String() holds neither.
CodecPhone(k) == <<"+", DigitChars[k + 1]>>
CodecPhones == {CodecPhone(k) : k \in 1 .. MaxAccounts + 1}
CodecCategories == {<<"auto">>, <<"mobile">>}
CodecNames == {<<"fav">>, <<>>, <<"a", ";", "b">>, <<"a", "\n", "b">>}
CodecBalances == {1, MaxMoney, MinMoney}
CodecUUID(k) == <<"uuid", DigitChars[k + 1]>>

RegisterAccountAfterImportCall ==
    \E phone \in CodecPhones :
        /\ CodecInstall("RegisterAccount", RegisterAccount(phone))
        /\ roundTrip' = [roundTrip EXCEPT !.stage = "none"]
        /\ UNCHANGED <<dir, file, deposited, rejects, favored>>

\* What an earlier Export of another ledger left in the directory.
StaleDir ==
    [made |-> TRUE,
     accounts |-> File(AccountLine([ID |-> 1, Phone |-> CodecPhone(9), Balance |-> 1], "\n")),
     payments |-> File(PaymentLine([ID |-> CodecUUID(8), AccountID |-> 1, Amount |-> 1,
                                    Category |-> <<"auto">>,
                                    Status |-> <<PaymentStatusInProgress>>])),
     favorites |-> File(FavoriteLine([ID |-> CodecUUID(9), AccountID |-> 1,
                                      Name |-> <<"fav">>, Amount |-> 1,
                                      Category |-> <<"auto">>]))]

\* The ledgers that are exported: accounts 1 .. n registered in turn, the
\* first one with a balance built by deposits (MinMoney: by a deposit that
\* wrapped); at most one payment, of 1 by account 1, paid and rejected; each
\* favorite made from that payment under a name of the caller's.
InitCodec ==
    \E n \in 0 .. MaxAccounts, balance \in CodecBalances, paid \in BOOLEAN,
       category \in CodecCategories, stale \in BOOLEAN :
      \E names \in UNION {[1 .. k -> CodecNames] : k \in 0 .. MaxFavorites} :
        /\ (n = 0 \/ ~paid) => (names = <<>> /\ category = <<"auto">>)
        /\ n = 0 => (~paid /\ balance = 1)
        /\ call = NoCall /\ main = Idle /\ workers = <<>> /\ wg = 0 /\ mu = -1
        /\ sum = 0 /\ found = <<>> /\ NoProgress
        /\ nextAccountID = n
        /\ accounts = [a \in 1 .. n |->
                          [ID |-> a, Phone |-> CodecPhone(a),
                           Balance |-> IF a = 1 THEN balance ELSE 0]]
        /\ payments = IF paid
                      THEN <<[ID |-> CodecUUID(1), AccountID |-> 1, Amount |-> 1,
                              Category |-> category, Status |-> <<PaymentStatusFail>>]>>
                      ELSE <<>>
        /\ favorites = [f \in 1 .. Len(names) |->
                           [ID |-> CodecUUID(1 + f), AccountID |-> 1, Name |-> names[f],
                            Amount |-> 1, Category |-> category]]
        /\ uuids = (IF paid THEN 1 ELSE 0) + Len(names)
        /\ last = [op |-> "new", args |-> NoArgs, err |-> ErrNone, ret |-> 0]
        /\ deposited = [a \in AccountIDs |->
                           IF a = 1 /\ n > 0
                           THEN (IF balance = MinMoney THEN MaxMoney + 1 ELSE balance)
                           ELSE 0]
        /\ rejects = [p \in UUIDs |-> IF p = 1 /\ paid THEN 1 ELSE 0]
        /\ calls = MaxCalls - MaxCodecCalls
        /\ favored = [f \in 1 .. Len(names) |-> payments[1]]
        /\ dir = (IF stale THEN StaleDir ELSE NoDir)
        /\ file = NoFile
        /\ roundTrip = NoRoundTrip

NextCodec ==
    \/ ExportCall
    \/ ExportToFileCall
    \/ NewServiceCall
    \/ ImportCall
    \/ ImportFromFileCall
    \/ RegisterAccountAfterImportCall

SpecCodec == InitCodec /\ [][NextCodec]_vars

(***************************************************************************)
(* Quantities of the history the properties speak about.                   *)
(***************************************************************************)
RECURSIVE SumSeq(_)
SumSeq(s) == IF s = <<>> THEN 0 ELSE Head(s) + SumSeq(Tail(s))

Count(seq, x) == Cardinality({i \in 1 .. Len(seq) : seq[i] = x})

\* Exact sum of the amounts of all payments ever created for the account.
Paid(accountID) ==
    SumSeq([p \in 1 .. Len(payments) |->
               IF payments[p].AccountID = accountID THEN payments[p].Amount ELSE 0])

\* Exact sum of the amounts of the account's payments that were never rejected.
PaidNeverRejected(accountID) ==
    SumSeq([p \in 1 .. Len(payments) |->
               IF payments[p].AccountID = accountID /\ rejects[payments[p].ID] = 0
               THEN payments[p].Amount ELSE 0])

\* Exact sum of the amounts of the account's rejected payments, each counted
\* once per successful Reject call.
Refunded(accountID) ==
    SumSeq([p \in 1 .. Len(payments) |->
               IF payments[p].AccountID = accountID
               THEN payments[p].Amount * rejects[payments[p].ID] ELSE 0])

\* The step is a call of op (every call advances the call counter).
IsCall(op) == calls' = calls + 1 /\ last'.op = op

(***************************************************************************)
(* C1                                                                      *)
(***************************************************************************)
\* C1 as stated: the balance of every account equals sum(successful
\* deposits) - sum(amounts of its never-rejected payments) + sum(amounts of
\* its rejected payments, once per successful Reject call).  Stated for the
\* histories in which every value fits the Money type, so that a violation
\* does not rest on wrap-around.
C1_AsStated ==
    \A a \in 1 .. Len(accounts) :
        LET id == accounts[a].ID
        IN  deposited[id] + Refunded(id) <= MaxMoney
            => accounts[a].Balance
                   = deposited[id] - PaidNeverRejected(id) + Refunded(id)

\* C1 amended: the balance of every account equals, in Money's wrap-around
\* arithmetic, sum(successful deposits) - sum(amounts of ALL payments created
\* for it, rejected or not) + sum(amounts of its rejected payments, once per
\* successful Reject call).
C1_BalanceEquation ==
    \A a \in 1 .. Len(accounts) :
        LET id == accounts[a].ID
        IN  accounts[a].Balance = WrapMoney(deposited[id] - Paid(id) + Refunded(id))

\* A deposit, a payment that was never rejected and one that was, the last
\* call being the Reject.
C1_Witness ==
    /\ last.op = "Reject" /\ last.err = ErrNone
    /\ \E a \in 1 .. Len(accounts) :
         /\ deposited[accounts[a].ID] > 0
         /\ \E p, q \in 1 .. Len(payments) :
              /\ payments[p].AccountID = accounts[a].ID
              /\ payments[q].AccountID = accounts[a].ID
              /\ rejects[payments[p].ID] = 0
              /\ rejects[payments[q].ID] > 0

(***************************************************************************)
(* C5                                                                      *)
(***************************************************************************)
\* C5: Pay with amount > 0 on an existing account fails with
\* ErrNotEnoughBalance exactly when balance < amount; on success it debits
\* exactly amount from that account only and appends exactly one INPROGRESS
\* payment with the given account, amount and category and an ID no existing
\* payment has, which FindPaymentByID then returns; on failure neither the
\* accounts nor the payments change.
C5_Pay ==
    [][ (/\ IsCall("Pay")
         /\ last'.args.amount > 0
         /\ FindAccountByID(last'.args.accountID) # 0)
        => LET a == FindAccountByID(last'.args.accountID)
               amount == last'.args.amount
               new == Len(payments) + 1
           IN  /\ (last'.err = ErrNotEnoughBalance) <=> (accounts[a].Balance < amount)
               /\ last'.err \in {ErrNone, ErrNotEnoughBalance}
               /\ last'.err = ErrNone =>
                    /\ accounts' = [accounts EXCEPT ![a].Balance = @ - amount]
                    /\ payments' = Append(payments, payments'[new])
                    /\ payments'[new].Status = PaymentStatusInProgress
                    /\ payments'[new].AccountID = last'.args.accountID
                    /\ payments'[new].Amount = amount
                    /\ payments'[new].Category = last'.args.category
                    /\ \A q \in 1 .. Len(payments) : payments[q].ID # payments'[new].ID
                    /\ last'.ret = payments'[new]
                    /\ FirstIndexByID(payments', payments'[new].ID) = new
               /\ last'.err # ErrNone =>
                    /\ accounts' = accounts
                    /\ payments' = payments
      ]_vars

\* A successful Pay of the whole balance, next to an earlier payment.
C5_Witness ==
    /\ last.op = "Pay" /\ last.err = ErrNone
    /\ Len(payments) = 2
    /\ accounts[FindAccountByID(last.args.accountID)].Balance = 0

(***************************************************************************)
(* C6                                                                      *)
(***************************************************************************)
\* C6: Pay and Deposit with amount <= 0 fail with ErrAmountMustBePositive,
\* whether or not the account exists, and leave the whole ledger unchanged.
C6_NonPositiveAmount ==
    [][ ((IsCall("Pay") \/ IsCall("Deposit")) /\ last'.args.amount <= 0)
        => /\ last'.err = ErrAmountMustBePositive
           /\ UNCHANGED ledger
      ]_vars

\* A Deposit of a non-positive amount into an account that does not exist.
C6_Witness ==
    /\ last.op = "Deposit"
    /\ last.args.amount <= 0
    /\ FindAccountByID(last.args.accountID) = 0
    /\ last.err = ErrAmountMustBePositive
    /\ Len(accounts) > 0

(***************************************************************************)
(* C7                                                                      *)
(***************************************************************************)
\* C7: in every reachable state every account's balance is >= 0, Money
\* being a fixed-width signed integer.
C7_BalanceNonNegative ==
    \A a \in 1 .. Len(accounts) : accounts[a].Balance >= 0

(***************************************************************************)
(* C8                                                                      *)
(***************************************************************************)
\* C8: Reject of an existing payment, whatever its status, sets the status
\* to FAIL and increases the owning account's balance by exactly the
\* payment's amount, changing no other account, payment or favorite; Reject
\* of an unknown payment fails with ErrPaymentNotFound and changes nothing.
C8_Reject ==
    [][ IsCall("Reject")
        => LET p == FindPaymentByID(last'.args.id)
           IN  IF p = 0
               THEN last'.err = ErrPaymentNotFound /\ UNCHANGED ledger
               ELSE LET a == FindAccountByID(payments[p].AccountID)
                    IN  /\ last'.err = ErrNone
                        /\ payments' = [payments EXCEPT ![p].Status = PaymentStatusFail]
                        /\ accounts' = [accounts EXCEPT
                                           ![a].Balance = @ + payments[p].Amount]
                        /\ UNCHANGED <<favorites, nextAccountID, uuids>>
      ]_vars

(***************************************************************************)
(* C9                                                                      *)
(***************************************************************************)
\* C9: a payment is created only by Pay, Repeat or PayFromFavorite and with
\* status INPROGRESS; the only change of a status is to FAIL, by Reject; no
\* payment ever has status OK; a payment that is FAIL stays FAIL.
C9_Status ==
    [][ /\ Len(payments') >= Len(payments)
        /\ \A p \in 1 .. Len(payments') :
             /\ payments'[p].Status # PaymentStatusOk
             /\ IF p > Len(payments)
                THEN /\ payments'[p].Status = PaymentStatusInProgress
                     /\ last'.op \in {"Pay", "Repeat", "PayFromFavorite"}
                ELSE /\ payments'[p].Status # payments[p].Status
                          => (payments'[p].Status = PaymentStatusFail /\ last'.op = "Reject")
                     /\ payments[p].Status = PaymentStatusFail
                          => payments'[p].Status = PaymentStatusFail
      ]_vars

\* A payment created in progress, rejected, and rejected again.
C9_Witness ==
    /\ last.op = "Reject" /\ last.err = ErrNone
    /\ \E p \in 1 .. Len(payments) :
         /\ rejects[payments[p].ID] = 2
         /\ payments[p].Status = PaymentStatusFail

(***************************************************************************)
(* C10                                                                     *)
(***************************************************************************)
\* C10: RegisterAccount with the phone of an existing account fails with
\* ErrPhoneRegistered, leaves the counter alone and appends nothing;
\* otherwise it increments the counter by one and appends an account with
\* that ID, the given phone and balance 0.
C10_RegisterAccount ==
    [][ IsCall("RegisterAccount")
        => IF \E a \in 1 .. Len(accounts) : accounts[a].Phone = last'.args.phone
           THEN /\ last'.err = ErrPhoneRegistered
                /\ nextAccountID' = nextAccountID
                /\ accounts' = accounts
           ELSE /\ last'.err = ErrNone
                /\ nextAccountID' = nextAccountID + 1
                /\ accounts' = Append(accounts, [ID |-> nextAccountID + 1,
                                                 Phone |-> last'.args.phone,
                                                 Balance |-> 0])
      ]_vars

\* A registration refused for its phone, after two that succeeded.
C10_Witness ==
    /\ last.op = "RegisterAccount"
    /\ last.err = ErrPhoneRegistered
    /\ Len(accounts) = 2
    /\ nextAccountID = 2

(***************************************************************************)
(* C2                                                                      *)
(***************************************************************************)
\* C2: whatever the goroutine count and the interleaving, SumPayments
\* returns the exact sum of the amounts of all payments (0 for none).
C2_ExactSum ==
    (call.fn = "SumPayments" /\ main.pc = "returned")
    => main.retSum = SumSeq([p \in 1 .. Len(payments) |-> payments[p].Amount])

(***************************************************************************)
(* C3                                                                      *)
(***************************************************************************)
\* C3: for an existing account, whatever the goroutine count and the
\* interleaving, FilterPayments returns without error a list that holds
\* every payment of that account exactly once and nothing else.
C3_FilterPayments ==
    (/\ call.fn = "FilterPayments"
     /\ main.pc = "returned"
     /\ FindAccountByID(call.accountID) # 0)
    => /\ main.err = ErrNone
       /\ \A p \in 1 .. Len(payments) :
            Count(main.retPayments, payments[p])
                = IF payments[p].AccountID = call.accountID THEN 1 ELSE 0
       /\ \A r \in 1 .. Len(main.retPayments) :
            \E p \in 1 .. Len(payments) : payments[p] = main.retPayments[r]

\* Several goroutines returned the account's payments out of slice order,
\* another account's payment left out.
C3_Witness ==
    /\ call.fn = "FilterPayments" /\ main.pc = "returned" /\ main.err = ErrNone
    /\ call.goroutines >= 2
    /\ Len(main.retPayments) = 2
    /\ main.retPayments[1].ID > main.retPayments[2].ID
    /\ \E p \in 1 .. Len(payments) : payments[p].AccountID # call.accountID

(***************************************************************************)
(* C4                                                                      *)
(***************************************************************************)
\* C4: whatever the goroutine count and the interleaving, FilterPaymentsByFn
\* returns without error a list that holds every payment the predicate
\* accepts exactly once and nothing else (the empty list for no payments).
C4_FilterPaymentsByFn ==
    (call.fn = "FilterPaymentsByFn" /\ main.pc = "returned")
    => /\ main.err = ErrNone
       /\ \A p \in 1 .. Len(payments) :
            Count(main.retPayments, payments[p])
                = IF ApplyFilter(call.filter, payments[p]) THEN 1 ELSE 0
       /\ \A r \in 1 .. Len(main.retPayments) :
            \E p \in 1 .. Len(payments) : payments[p] = main.retPayments[r]

\* Several goroutines returned the accepted payments out of slice order, a
\* payment the predicate refuses left out.
C4_Witness ==
    /\ call.fn = "FilterPaymentsByFn" /\ main.pc = "returned" /\ main.err = ErrNone
    /\ call.goroutines >= 2
    /\ Len(main.retPayments) = 2
    /\ main.retPayments[1].ID > main.retPayments[2].ID
    /\ \E p \in 1 .. Len(payments) : ~ApplyFilter(call.filter, payments[p])

(***************************************************************************)
(* C11                                                                     *)
(***************************************************************************)
\* C11: the k-th registered account has ID k, nextAccountID is the number
\* of accounts, so the IDs increase strictly in registration order and are
\* pairwise distinct; the phones of the accounts are pairwise distinct.
C11_AccountIDs ==
    /\ nextAccountID = Len(accounts)
    /\ \A k \in 1 .. Len(accounts) : accounts[k].ID = k
    /\ \A j, k \in 1 .. Len(accounts) :
         j < k => /\ accounts[j].ID < accounts[k].ID
                  /\ accounts[j].Phone # accounts[k].Phone

\* Two registrations, one refused in between or after, mixed with a payment.
C11_Witness ==
    /\ Len(accounts) = 2
    /\ Len(payments) > 0
    /\ last.op # "RegisterAccount"

\* C11, never reused: a step keeps every account where it is with its ID,
\* and an account it appends gets an ID above every ID in use.
C11_NeverReused ==
    [][ /\ Len(accounts') >= Len(accounts)
        /\ \A k \in 1 .. Len(accounts) : accounts'[k].ID = accounts[k].ID
        /\ \A k \in 1 .. Len(accounts') :
             k > Len(accounts) => \A j \in 1 .. Len(accounts) : accounts[j].ID < accounts'[k].ID
      ]_vars

(***************************************************************************)
(* C12                                                                     *)
(***************************************************************************)
\* C12: Repeat of an existing payment returns what Pay of the original's
\* account, amount and category returns in the same state and leaves the
\* ledger that Pay leaves: ErrNotEnoughBalance and no new payment when the
\* amount exceeds the balance, otherwise the debit and one appended
\* INPROGRESS payment with a new ID, the original payment unchanged.  Repeat
\* of an unknown payment fails with ErrPaymentNotFound.
C12_Repeat ==
    [][ IsCall("Repeat")
        => LET p == FindPaymentByID(last'.args.id)
           IN  IF p = 0
               THEN last'.err = ErrPaymentNotFound /\ UNCHANGED ledger
               ELSE LET original == payments[p]
                        a == FindAccountByID(original.AccountID)
                        r == Pay(original.AccountID, original.Amount, original.Category)
                        new == Len(payments) + 1
                    IN  /\ last'.err = r.err
                        /\ last'.ret = r.ret
                        /\ nextAccountID' = r.st.nextAccountID
                        /\ accounts' = r.st.accounts
                        /\ payments' = r.st.payments
                        /\ favorites' = r.st.favorites
                        /\ IF original.Amount > accounts[a].Balance
                           THEN /\ last'.err = ErrNotEnoughBalance
                                /\ payments' = payments
                                /\ accounts' = accounts
                           ELSE /\ last'.err = ErrNone
                                /\ accounts' = [accounts EXCEPT
                                                   ![a].Balance = @ - original.Amount]
                                /\ Len(payments') = new
                                /\ \A q \in 1 .. Len(payments) :
                                     /\ payments'[q] = payments[q]
                                     /\ payments'[q].ID # payments'[new].ID
                                /\ payments'[new].Status = PaymentStatusInProgress
                                /\ payments'[new].AccountID = original.AccountID
                                /\ payments'[new].Amount = original.Amount
                                /\ payments'[new].Category = original.Category
      ]_vars

\* A rejected payment repeated: the copy is in progress, the original FAIL.
C12_Witness ==
    /\ last.op = "Repeat" /\ last.err = ErrNone
    /\ Len(payments) = 2
    /\ payments[1].Status = PaymentStatusFail
    /\ payments[2].Status = PaymentStatusInProgress
    /\ payments[2].Amount = payments[1].Amount

(***************************************************************************)
(* C13                                                                     *)
(***************************************************************************)
\* C13: PayFromFavorite of a favorite made from payment p, whatever was
\* called in between, fails with ErrNotEnoughBalance and changes nothing
\* when the balance at that moment is below the amount p had when it was
\* favorited; otherwise it debits p's account by that amount and appends one
\* INPROGRESS payment with the account, amount and category p had when it
\* was favorited.  An unknown favorite ID fails with ErrFavoriteNotFound.
C13_PayFromFavorite ==
    [][ IsCall("PayFromFavorite")
        => LET f == FindFavoriteByID(last'.args.id)
           IN  IF f = 0
               THEN last'.err = ErrFavoriteNotFound /\ UNCHANGED ledger
               ELSE LET p == favored[f]
                        a == FindAccountByID(p.AccountID)
                        new == Len(payments) + 1
                    IN  IF accounts[a].Balance < p.Amount
                        THEN last'.err = ErrNotEnoughBalance /\ UNCHANGED ledger
                        ELSE /\ last'.err = ErrNone
                             /\ accounts' = [accounts EXCEPT ![a].Balance = @ - p.Amount]
                             /\ Len(payments') = new
                             /\ \A q \in 1 .. Len(payments) : payments'[q] = payments[q]
                             /\ payments'[new].AccountID = p.AccountID
                             /\ payments'[new].Amount = p.Amount
                             /\ payments'[new].Category = p.Category
                             /\ payments'[new].Status = PaymentStatusInProgress
                             /\ last'.ret = payments'[new]
                             /\ UNCHANGED <<favorites, nextAccountID>>
      ]_vars

\* The balance covered the amount when the payment was favorited, a Pay in
\* between used it up, and PayFromFavorite is refused.
C13_Witness ==
    /\ last.op = "PayFromFavorite" /\ last.err = ErrNotEnoughBalance
    /\ Len(favorites) = 1 /\ Len(payments) = 2
    /\ rejects[payments[1].ID] = 0
    /\ deposited[1] >= 2 * favored[1].Amount
    /\ accounts[1].Balance < favorites[1].Amount

(***************************************************************************)
(* C14                                                                     *)
(***************************************************************************)
\* C14: FavoritePayment of an existing payment appends a favorite with the
\* payment's account, amount and category and the given name, and of an
\* unknown payment fails with ErrPaymentNotFound and appends nothing; no
\* other call appends a favorite, and no call changes or removes one.
C14_Favorite ==
    [][ /\ Len(favorites') >= Len(favorites)
        /\ \A f \in 1 .. Len(favorites) : favorites'[f] = favorites[f]
        /\ IF IsCall("FavoritePayment")
           THEN LET p == FindPaymentByID(last'.args.id)
                    new == Len(favorites) + 1
                IN  IF p = 0
                    THEN last'.err = ErrPaymentNotFound /\ favorites' = favorites
                    ELSE /\ last'.err = ErrNone
                         /\ Len(favorites') = new
                         /\ favorites'[new].AccountID = payments[p].AccountID
                         /\ favorites'[new].Amount = payments[p].Amount
                         /\ favorites'[new].Category = payments[p].Category
                         /\ favorites'[new].Name = last'.args.name
                         /\ last'.ret = favorites'[new]
           ELSE favorites' = favorites
      ]_vars

\* The source payment was rejected after it was favorited; the favorite
\* still carries what the payment had.
C14_Witness ==
    /\ last.op = "Reject" /\ last.err = ErrNone
    /\ Len(favorites) = 1
    /\ last.args.id = favored[1].ID
    /\ payments[FindPaymentByID(favored[1].ID)].Status = PaymentStatusFail
    /\ favored[1].Status = PaymentStatusInProgress
    /\ favorites[1].Amount = favored[1].Amount
    /\ favorites[1].Category = favored[1].Category
(***************************************************************************)
(* C15                                                                     *)
(***************************************************************************)
\* The progress entries produced so far, in the order a consumer gets them.
Entries == consumer.got \o progressChannel.buf

\* Exact sum of the amounts of the payments at indices [i*B, min((i+1)*B, total)).
BatchSum(i) ==
    LET lo == i * BatchSize
        hi == Min((i + 1) * BatchSize, Len(payments))
    IN  SumSeq([k \in 1 .. (hi - lo) |-> payments[lo + k].Amount])

\* C15: SumPaymentsWithProgress over total payments yields exactly
\* 1 + total / BatchSize entries; entry i has Part = i and Result = the exact
\* sum of the amounts of batch i, so that the Results add up to the exact sum
\* of all amounts; the slice expression never goes out of range.
C15_Entries ==
    /\ (call.fn = "SumPaymentsWithProgress" => main.pc # "panic")
    /\ (call.fn = "SumPaymentsWithProgress" /\ main.pc = "returned")
       => /\ Len(Entries) = 1 + (Len(payments) \div BatchSize)
          /\ \A i \in 0 .. Len(Entries) - 1 :
                /\ Entries[i + 1].Part = i
                /\ Entries[i + 1].Result = BatchSum(i)
          /\ SumSeq([i \in 1 .. Len(Entries) |-> Entries[i].Result])
                = SumSeq([p \in 1 .. Len(payments) |-> payments[p].Amount])

\* C15, as far as the code goes: the same with every Result the batch sum
\* as the fixed-width addition leaves it.
C15_EntriesWrapped ==
    /\ (call.fn = "SumPaymentsWithProgress" => main.pc # "panic")
    /\ (call.fn = "SumPaymentsWithProgress" /\ main.pc = "returned")
       => /\ Len(Entries) = 1 + (Len(payments) \div BatchSize)
          /\ \A i \in 0 .. Len(Entries) - 1 :
                /\ Entries[i + 1].Part = i
                /\ Entries[i + 1].Result = WrapMoney(BatchSum(i))
(***************************************************************************)
(* C16                                                                     *)
(***************************************************************************)
\* The workers that are summing their batch or hold a sum not yet received.
Computing == {w \in Workers : workers[w].pc \in {"scan", "send"}}

\* C16: in SumPaymentsWithProgress the worker of a batch is started only
\* after the entries of all earlier batches were put on the channel, so at
\* most one worker is computing at any time and the entries are in the
\* order Part = 0, 1, 2, ...
C16_OneBatchAtATime ==
    call.fn = "SumPaymentsWithProgress"
    => /\ \A w \in Workers : Len(Entries) >= workers[w].iteration
       /\ Cardinality(Computing) <= 1
       /\ \A k \in 1 .. Len(Entries) : Entries[k].Part = k - 1

\* The second worker sums its batch after the entry of the first batch was
\* recorded, while the first worker has not yet left.
C16_Witness ==
    /\ call.fn = "SumPaymentsWithProgress"
    /\ Len(workers) = 2
    /\ workers[1].pc = "exit"
    /\ workers[2].pc = "scan"
    /\ workers[2].j > workers[2].iteration * BatchSize
    /\ Len(Entries) = 1
(***************************************************************************)
(* C17                                                                     *)
(***************************************************************************)
\* The caller has the channel and reads from it only after the function
\* returned; by then the channel is closed, every worker has finished and
\* every entry is on the channel or consumed, once; an enqueue always finds
\* room in the buffer; a receive of the consumer never blocks.
AllBeforeAvailable ==
    call.fn = "SumPaymentsWithProgress"
    => /\ progressChannel.cap = (IF main.pc = "call" THEN 0 ELSE routines)
       /\ main.pc = "enqueue" => Len(progressChannel.buf) < progressChannel.cap
       /\ consumer.pc # "idle" => main.pc = "returned"
       /\ main.pc = "returned"
          => /\ progressChannel.closed
             /\ Len(workers) = routines
             /\ \A w \in Workers : workers[w].pc = "done"
             /\ wg = 0
             /\ Len(Entries) = routines
             /\ \A k \in 1 .. Len(Entries) : Entries[k].Part = k - 1
       /\ consumer.pc = "range" => (progressChannel.buf # <<>> \/ progressChannel.closed)
       /\ consumer.pc = "done" => (progressChannel.buf = <<>> /\ Len(consumer.got) = routines)

\* C17: SumPaymentsWithProgress hands the channel to the caller only after
\* every entry was enqueued and every worker finished; the enqueue never
\* blocks, the channel is closed on return, nothing is enqueued later, and a
\* consumer ranging over it gets every entry once and then terminates.
C17_Available ==
    /\ []AllBeforeAvailable
    /\ [][main.pc = "returned" => Entries' = Entries]_vars
    /\ (call.fn = "SumPaymentsWithProgress" ~> consumer.pc = "done")

\* The range loop of the consumer ended after two entries.
C17_Witness ==
    /\ call.fn = "SumPaymentsWithProgress"
    /\ consumer.pc = "done"
    /\ Len(consumer.got) = 2
    /\ consumer.got[1].Result > 0
(***************************************************************************)
(* C18                                                                     *)
(***************************************************************************)
Partitioned == {"SumPayments", "FilterPayments", "FilterPaymentsByFn"}

\* C18: SumPayments, FilterPayments and FilterPaymentsByFn return their
\* result only after every spawned worker has merged its partial result and
\* released the mutex; after the return no worker touches the accumulator.
C18_JoinAll ==
    /\ [](call.fn \in Partitioned /\ main.pc = "returned" /\ main.err = ErrNone
          => /\ Len(workers) = main.goroutines
             /\ \A w \in Workers : workers[w].pc = "done"
             /\ mu = -1
             /\ wg = 0
             /\ main.retSum = sum
             /\ main.retPayments = found)
    /\ [][call.fn \in Partitioned /\ main.pc = "returned"
          => sum' = sum /\ found' = found /\ workers' = workers]_vars

\* SumPayments returned after three workers merged their partial sums.
C18_Witness ==
    /\ call.fn = "SumPayments"
    /\ main.pc = "returned"
    /\ Len(workers) = 3
    /\ \A w \in Workers : workers[w].pc = "done"
    /\ Len(payments) = 3
    /\ main.retSum = 3

(***************************************************************************)
(* C19                                                                     *)
(***************************************************************************)
\* C19: FilterPayments for an account ID that matches no account returns
\* ErrAccountNotFound whatever the goroutine count; the lookup comes before
\* the partitioning, no goroutine is spawned and no list is produced.
C19_AccountNotFound ==
    (call.fn = "FilterPayments" /\ FindAccountByID(call.accountID) = 0)
    => /\ main.pc \in {"call", "returned"}
       /\ workers = <<>>
       /\ wg = 0
       /\ found = <<>>
       /\ main.paysPerRoutine = 0
       /\ main.pc = "returned"
          => (main.err = ErrAccountNotFound /\ main.retPayments = <<>>)

\* The refusal for a goroutine count below 1 and a slice with payments.
C19_Witness ==
    /\ call.fn = "FilterPayments"
    /\ FindAccountByID(call.accountID) = 0
    /\ call.goroutines = 0
    /\ Len(payments) = MaxLen
    /\ main.pc = "returned"
    /\ main.err = ErrAccountNotFound

(***************************************************************************)
(* C20                                                                     *)
(***************************************************************************)
\* C20: no step of SumPayments, FilterPayments, FilterPaymentsByFn or
\* SumPaymentsWithProgress, of the caller or of a worker, changes accounts,
\* payments, favorites or the account-ID counter.
C20_ReadOnly == [][UNCHANGED <<accounts, payments, favorites, nextAccountID>>]_vars

\* FilterPaymentsByFn returned three payments found by two workers.
C20_Witness ==
    /\ call.fn = "FilterPaymentsByFn"
    /\ main.pc = "returned"
    /\ Len(main.retPayments) = 3
    /\ Len(workers) = 2
    /\ workers[1].partialPayments # <<>>
    /\ workers[2].partialPayments # <<>>
(***************************************************************************)
(* C26                                                                     *)
(***************************************************************************)
\* Every payment and every favorite belongs to an existing account.
Referenced ==
    /\ \A p \in 1 .. Len(payments) : FindAccountByID(payments[p].AccountID) # 0
    /\ \A f \in 1 .. Len(favorites) : FindAccountByID(favorites[f].AccountID) # 0

\* C26: in every state reachable by the seven ledger operations every
\* payment's and every favorite's AccountID is the ID of an existing account;
\* no step removes an account or a payment; hence Reject, Repeat and
\* PayFromFavorite never return ErrAccountNotFound.
C26_References ==
    /\ [](/\ Referenced
          /\ last.op \in {"Reject", "Repeat", "PayFromFavorite"}
             => last.err # ErrAccountNotFound)
    /\ [][/\ Len(accounts') >= Len(accounts)
          /\ \A a \in 1 .. Len(accounts) : accounts'[a].ID = accounts[a].ID
          /\ Len(payments') >= Len(payments)
          /\ \A p \in 1 .. Len(payments) :
                /\ payments'[p].ID = payments[p].ID
                /\ payments'[p].AccountID = payments[p].AccountID]_vars

\* A payment made from a favorite, for the account the favorite names.
C26_Witness ==
    /\ last.op = "PayFromFavorite" /\ last.err = ErrNone
    /\ Len(favorites) = 1 /\ Len(payments) = 2
    /\ FindAccountByID(favorites[1].AccountID) # 0
    /\ payments[2].AccountID = favorites[1].AccountID

(***************************************************************************)
(* C27                                                                     *)
(***************************************************************************)
\* C27: in every reachable state, for an account whose history stays within
\* the Money type, the balance equals sum(successful deposits) - sum(amounts
\* of all payments created for it, rejected or not) + sum(amounts of its
\* rejected payments, once per successful Reject call); so one Reject gives
\* back exactly what the Pay took.
C27_Balance ==
    \A a \in 1 .. Len(accounts) :
        LET id == accounts[a].ID
        IN  deposited[id] + Refunded(id) <= MaxMoney
            => accounts[a].Balance = deposited[id] - Paid(id) + Refunded(id)

\* One deposit, one payment and its Reject: the balance is the deposit again.
C27_Witness ==
    /\ last.op = "Reject" /\ last.err = ErrNone
    /\ Len(payments) = 1
    /\ rejects[payments[1].ID] = 1
    /\ LET id == payments[1].AccountID
       IN  /\ deposited[id] + Refunded(id) <= MaxMoney
           /\ deposited[id] = 2
           /\ accounts[FindAccountByID(id)].Balance = 2
(***************************************************************************)
(* C23                                                                     *)
(***************************************************************************)
\* The workers inside the critical section, and those that left it.
Holders == {w \in Workers : workers[w].pc \in {"read", "write", "unlock"}}
Merged == {w \in Workers : workers[w].pc \in {"unlock", "exit", "done"}}

\* The accumulator holds the partial result of every worker that merged,
\* once, and nothing else.
MergedOnce ==
    /\ sum = (IF call.fn = "SumPayments"
              THEN WrapMoney(SumSeq([w \in Workers |->
                       IF w \in Merged THEN workers[w].partialSum ELSE 0]))
              ELSE 0)
    /\ Len(found) = SumSeq([w \in Workers |->
                        IF w \in Merged /\ call.fn # "SumPayments"
                        THEN Len(workers[w].partialPayments) ELSE 0])
    /\ \A w \in Merged :
          call.fn # "SumPayments"
          => \A k \in 1 .. Len(workers[w].partialPayments) :
                Count(found, workers[w].partialPayments[k]) = 1

\* C23: in SumPayments, FilterPayments and FilterPaymentsByFn a scanning
\* worker writes only its own partial result; the accumulator is read and
\* written only by the worker that holds the mutex, at most one worker holds
\* it, and every worker merges exactly once: no partial result is lost or
\* merged twice, under every interleaving.
C23_Merge ==
    /\ [](call.fn \in Partitioned
          => /\ Cardinality(Holders) <= 1
             /\ (mu = -1) <=> (Holders = {})
             /\ \A w \in Holders : mu = workers[w].iteration
             /\ MergedOnce)
    /\ [][call.fn \in Partitioned
          => /\ (sum' # sum \/ found' # found)
                => \E w \in Holders : /\ workers[w].pc = "write"
                                      /\ workers'[w].pc = "unlock"
             /\ \A w \in Workers :
                   (workers[w].pc = "scan" /\ workers'[w] # workers[w])
                   => /\ sum' = sum /\ found' = found /\ mu' = mu
                      /\ \A v \in Workers \ {w} : workers'[v] = workers[v]]_vars

\* FilterPayments: one worker has merged its payments, another waits for the
\* mutex with its own, a third holds it.
C23_Witness ==
    /\ call.fn = "FilterPayments"
    /\ Len(workers) = 3
    /\ \E u, v, w \in Workers :
          /\ workers[u].pc \in {"exit", "done"} /\ workers[u].partialPayments # <<>>
          /\ workers[v].pc = "lock" /\ workers[v].partialPayments # <<>>
          /\ workers[w].pc = "write"
    /\ found # <<>>
(***************************************************************************)
(* C24                                                                     *)
(***************************************************************************)
\* The indices (from 0, as in the source) worker w has scanned so far, and
\* the indices of its partition that exist.
Scanned(w) == (workers[w].iteration * main.paysPerRoutine) .. (workers[w].j - 1)
Owned(w) ==
    {k \in (workers[w].iteration * main.paysPerRoutine)
             .. ((workers[w].iteration + 1) * main.paysPerRoutine - 1) :
        k < Len(payments)}

\* The payments at the indices lo .. hi that the call keeps, in order.
RECURSIVE KeptBetween(_, _)
KeptBetween(lo, hi) ==
    IF lo > hi THEN <<>>
    ELSE (IF Keeps(payments[lo + 1]) THEN <<payments[lo + 1]>> ELSE <<>>)
         \o KeptBetween(lo + 1, hi)

\* C24: for every total >= 0 and every goroutine count (below 1 taken as 1),
\* with paysPerRoutine = total / goroutines + 1, worker i scans exactly the
\* indices of [i * paysPerRoutine, (i + 1) * paysPerRoutine) below total: the
\* scanned ranges are pairwise disjoint, their union is [0, total), no index
\* outside [0, total) is read, and a worker that starts beyond total - 1
\* processes nothing.
C24_Partition ==
    (call.fn \in Partitioned /\ main.pc \notin {"call"} /\ main.err = ErrNone)
    => /\ main.goroutines = (IF call.goroutines < 1 THEN 1 ELSE call.goroutines)
       /\ main.paysPerRoutine = (Len(payments) \div main.goroutines) + 1
       /\ \A w \in Workers :
             /\ Scanned(w) \subseteq Owned(w)
             /\ workers[w].pc # "scan" => Scanned(w) = Owned(w)
             /\ workers[w].iteration * main.paysPerRoutine > Len(payments) - 1
                => Scanned(w) = {} /\ workers[w].partialSum = 0
                                   /\ workers[w].partialPayments = <<>>
             /\ IF call.fn = "SumPayments"
                THEN workers[w].partialSum
                         = WrapMoney(SumSeq([k \in 1 .. Len(payments) |->
                               IF k - 1 \in Scanned(w) THEN payments[k].Amount ELSE 0]))
                ELSE workers[w].partialPayments
                         = KeptBetween(workers[w].iteration * main.paysPerRoutine,
                                       workers[w].j - 1)
       /\ \A v, w \in Workers : v # w => Owned(v) \cap Owned(w) = {}
       /\ (Len(workers) = main.goroutines /\ \A w \in Workers : workers[w].pc # "scan")
          => UNION {Scanned(w) : w \in Workers} = 0 .. (Len(payments) - 1)

\* Three payments, goroutine count 3: partitions of two, the second clipped
\* to one payment, the third empty.
C24_Witness ==
    /\ call.fn = "FilterPaymentsByFn"
    /\ Len(payments) = 3 /\ main.goroutines = 3 /\ main.paysPerRoutine = 2
    /\ Len(workers) = 3
    /\ \A w \in Workers : workers[w].pc # "scan"
    /\ Cardinality(Scanned(1)) = 2
    /\ Cardinality(Scanned(2)) = 1
    /\ Scanned(3) = {}
(***************************************************************************)
(* C25                                                                     *)
(***************************************************************************)
\* C25: under fair scheduling every call of SumPayments, FilterPayments,
\* FilterPaymentsByFn and SumPaymentsWithProgress eventually returns, for
\* every number of payments and every goroutine count; no goroutine is left
\* blocked on the mutex, the wait group or a channel.
C25_Returns ==
    /\ (main.pc = "call" ~> main.pc = "returned")
    /\ [](main.pc = "returned"
          => \A w \in Workers : workers[w].pc = "done")

\* SumPayments returned with more goroutines than payments: two of the three
\* workers had an empty partition.
C25_Witness ==
    /\ call.fn = "SumPayments"
    /\ main.pc = "returned"
    /\ Len(payments) = 1
    /\ Len(workers) = 3
    /\ workers[2].j = workers[2].iteration * main.paysPerRoutine
    /\ workers[3].j = workers[3].iteration * main.paysPerRoutine
    /\ main.retSum = 1
(***************************************************************************)
(* C21                                                                     *)
(***************************************************************************)
Range(seq) == {seq[i] : i \in 1 .. Len(seq)}

\* The store holds what was exported, the counter the largest account ID.
SameLedger ==
    /\ last.err = ErrNone
    /\ Range(accounts) = Range(roundTrip.accounts)
    /\ Range(payments) = Range(roundTrip.payments)
    /\ Range(favorites) = Range(roundTrip.favorites)
    /\ nextAccountID = MaxAccountID(accounts)
    /\ nextAccountID = MaxAccountID(roundTrip.accounts)

\* C21: Export of any reachable ledger, then Import into a fresh store,
\* yields the same accounts, payments and favorites, by ID and by every
\* field, and a counter equal to the largest imported account ID.
C21_RoundTrip == roundTrip.stage = "imported" => SameLedger

\* No string of the exported ledger holds a separator of the dump format.
Plain(string) == \A i \in 1 .. Len(string) : string[i] \notin {";", "\n"}
PlainLedger ==
    /\ \A a \in Range(roundTrip.accounts) : Plain(a.Phone)
    /\ \A p \in Range(roundTrip.payments) :
          Plain(p.ID) /\ Plain(p.Category) /\ Plain(p.Status)
    /\ \A f \in Range(roundTrip.favorites) :
          Plain(f.ID) /\ Plain(f.Name) /\ Plain(f.Category)

\* C21, as far as the code goes: the round trip of a ledger without
\* separators in its strings, through a directory that held no dump file of
\* a collection the ledger has empty.
C21_RoundTripPlain ==
    (roundTrip.stage = "imported" /\ roundTrip.clean /\ PlainLedger) => SameLedger

\* Such a round trip, of a ledger with a negative balance, a payment and a
\* favorite.
C21_PlainWitness ==
    /\ roundTrip.stage = "imported" /\ roundTrip.clean /\ PlainLedger
    /\ Len(accounts) = 2 /\ Len(payments) = 1 /\ Len(favorites) = 1
    /\ accounts[1].Balance < 0
(***************************************************************************)
(* C22                                                                     *)
(***************************************************************************)
IDs(list) == {list[i].ID : i \in 1 .. Len(list)}
Distinct(list) == \A i, j \in 1 .. Len(list) : list[i].ID = list[j].ID => i = j

\* Every entity that was in the list is still at its place, and every ID
\* the call brought in is there exactly once.
Upserted(before, after) ==
    /\ Len(after) >= Len(before)
    /\ \A i \in 1 .. Len(before) : after[i].ID = before[i].ID
    /\ \A i, j \in 1 .. Len(after) :
          (after[i].ID = after[j].ID /\ i # j) => (i <= Len(before) /\ j <= Len(before))

\* The account part of C22: upsert by ID, the counter recomputed, the IDs
\* pairwise distinct.
AccountsUpserted ==
    /\ Upserted(accounts, accounts')
    /\ nextAccountID' = MaxAccountID(accounts')
    /\ Distinct(accounts')

\* C22: every import, ImportFromFile and Import alike, upserts by ID each
\* entity type it reads and leaves the counter at the largest account ID, so
\* that account IDs stay pairwise distinct and a RegisterAccount that follows
\* never assigns an ID in use.
C22_Upsert ==
    [][/\ (IsCall("ImportFromFile") /\ last'.err = ErrNone) => AccountsUpserted
       /\ (IsCall("Import") /\ last'.err = ErrNone)
          => /\ AccountsUpserted
             /\ Upserted(payments, payments')
             /\ Upserted(favorites, favorites')
       /\ (IsCall("RegisterAccount") /\ last'.err = ErrNone)
          => last'.ret.ID \notin IDs(accounts)]_vars

\* C22, as far as the code goes: Import alone, on a store whose IDs are
\* distinct and whose counter is the largest account ID, and a
\* RegisterAccount on such a store.
C22_ImportUpserts ==
    [][(Distinct(accounts) /\ nextAccountID = MaxAccountID(accounts))
       => /\ (IsCall("Import") /\ last'.err = ErrNone)
             => /\ AccountsUpserted
                /\ Upserted(payments, payments')
                /\ Upserted(favorites, favorites')
          /\ (IsCall("RegisterAccount") /\ last'.err = ErrNone)
             => last'.ret.ID \notin IDs(accounts)]_vars

\* An Import that updated an account in place and appended another.
C22_ImportWitness ==
    /\ last.op = "Import" /\ last.err = ErrNone
    /\ Len(accounts) = 2 /\ Distinct(accounts)
    /\ accounts[1].Phone = CodecPhone(9)
    /\ nextAccountID = 2

====
